---- MODULE Spec2Model ----
(***************************************************************************)
(* State-machine model of the CoursePlatform application: the OTP record   *)
(* (users/models.py), phone registration (users/views.py, users/forms.py), *)
(* the course builder, enrollment and progress views (courses/views.py),   *)
(* and the admin actions on payouts (authors/admin.py) and courses         *)
(* (courses/admin.py).                                                     *)
(*                                                                         *)
(* Every view or model method is one action; a database table is a         *)
(* sequence of rows indexed by primary key (ids start at 1, rows are never *)
(* physically removed because every delete in the code is a soft delete).  *)
(* Each subsystem has its own next-state relation and specification; the   *)
(* variables of the other subsystems are left unchanged by it.             *)
(***************************************************************************)
EXTENDS Integers, Sequences, FiniteSets, TLC

VARIABLES
    now,          \* timezone.now(), in minutes
    otp,          \* one PhoneVerification row
    otpLast,      \* the last call on the row: operation, argument, result, row before
    otpTrue,      \* how many verify() calls on the row have returned True
    users,        \* table users: sequence of User rows
    otpStore,     \* OtpService: phone -> pending registration OTP and payload
    session,      \* per browser session: registration_phone, demo_student_id
    regLast,      \* the last registration request and its outcome
    course,       \* the Course row: status, enrollment_count, published_at
    modules,      \* table course_modules (all_objects)
    lessons,      \* table lessons (all_objects)
    enrollments,  \* table course_enrollments
    progress,     \* table lesson_progress
    courseLast,   \* the last course request and its outcome
    payouts,      \* table author_payouts
    payLast,      \* the last payout admin request
    txns,         \* table transactions
    txnLast,      \* the last transaction admin request
    refunds,      \* table refund_requests
    refLast,      \* the last refund admin request
    moderation,   \* table course_moderations (the records of the course)
    modLast,      \* the last moderation admin request
    moderation_logs, \* table moderation_logs (the audit log)
    login_phone,  \* per browser session: session['login_phone']
    telegram,     \* users.telegram_id: the (user, chat) pairs that are set
    botReply,     \* the bot's answer to the last contact share
    enrolling,    \* enroll_course_view requests in flight: the Course object each loaded
    linking,      \* contact handlers in flight: the User object each found
    previews      \* the lessons with is_preview = True

vars == <<now, otp, otpLast, otpTrue, users, otpStore, session, regLast,
          course, modules, lessons, enrollments, progress, courseLast,
          payouts, payLast, txns, txnLast, refunds, refLast,
          moderation, modLast, moderation_logs, login_phone, telegram,
          botReply, enrolling, linking, previews>>

otpVars == <<otp, otpLast, otpTrue>>
regVars == <<otpStore, regLast>>
courseVars == <<course, modules, lessons, enrollments, progress, courseLast>>
payVars == <<payouts, payLast>>
ledgerVars == <<txns, txnLast, refunds, refLast>>
modVars == <<moderation, modLast, moderation_logs>>
botVars == <<login_phone, telegram, botReply>>
reqVars == <<enrolling, linking>>

-----------------------------------------------------------------------------
(* Bounds of the model *)

\* the clock stops here
MaxNow == 6
\* verify() is called at most this many times on the row
MaxCalls == 5

\* at most this many payout requests exist
MaxPayouts == 2

\* at most this many Transaction rows exist
MaxTxns == 1
\* at most this many RefundRequest rows exist
MaxRefunds == 2

\* at most this many CourseModeration rows exist
MaxModerations == 2

\* at most this many User rows exist
MaxUsers == 3

\* at most this many CourseModule rows exist (soft-deleted ones included)
MaxModules == 2
\* at most this many Lesson rows exist (soft-deleted ones included)
MaxLessons == 2

(* Program constants *)

\* PhoneVerification.MAX_ATTEMPTS
MAX_ATTEMPTS == 3
\* PhoneVerification.OTP_VALIDITY_MINUTES
OTP_VALIDITY_MINUTES == 5

\* the number of digits after +998 in a phone number (phone_regex)
PHONE_DIGITS == 9

\* Python's None / SQL NULL in an integer column
None == -1

\* the codes a caller may submit (otp_code is a CharField; only equality matters)
Codes == {"111111", "222222"}

-----------------------------------------------------------------------------
(* users/base.py: SoftDeleteModel *)

soft_delete_flag_only(row, t) == [row EXCEPT !.is_deleted = TRUE]

\* SoftDeleteModel.delete(hard=False)
soft_delete(row, t) == [row EXCEPT !.is_deleted = TRUE, !.deleted_at = t]

\* SoftDeleteModel.restore()
restore(row) == [row EXCEPT !.is_deleted = FALSE, !.deleted_at = None]

-----------------------------------------------------------------------------
(* users/models.py: PhoneVerification *)

\* a new row: attempts and is_verified take the field defaults, the code is
\* valid for OTP_VALIDITY_MINUTES from its creation
NewVerification(code, t) ==
    [otp_code |-> code, is_verified |-> FALSE, expires_at |-> t + OTP_VALIDITY_MINUTES,
     attempts |-> 0, is_deleted |-> FALSE, deleted_at |-> None]

is_valid_off_by_one(r, t) ==
    /\ ~r.is_verified
    /\ r.attempts <= MAX_ATTEMPTS
    /\ t < r.expires_at
    /\ ~r.is_deleted

is_valid_ignores_state(r, t) ==
    r.attempts < MAX_ATTEMPTS

\* PhoneVerification.is_valid(): reads the row, writes nothing
is_valid(r, t) ==
    /\ ~r.is_verified
    /\ r.attempts < MAX_ATTEMPTS
    /\ t < r.expires_at
    /\ ~r.is_deleted

verify_counts_failures_only(r, code, t) ==
    IF is_valid(r, t) /\ r.otp_code = code
    THEN [row |-> [r EXCEPT !.is_verified = TRUE], ret |-> TRUE]
    ELSE [row |-> [r EXCEPT !.attempts = @ + 1], ret |-> FALSE]

\* PhoneVerification.verify(code): the row after the call and the value returned
verify(r, code, t) ==
    LET counted == [r EXCEPT !.attempts = @ + 1]      \* self.attempts += 1; self.save()
    IN  IF ~is_valid(counted, t)
        THEN [row |-> counted, ret |-> FALSE]
        ELSE IF counted.otp_code = code
             THEN [row |-> [counted EXCEPT !.is_verified = TRUE], ret |-> TRUE]
             ELSE [row |-> counted, ret |-> FALSE]

OtpCall(op, code, ret) ==
    [op |-> op, code |-> code, ret |-> ret, pre |-> otp, at |-> now]

\* a caller runs record.verify(code)
Verify ==
    /\ otp.attempts < MaxCalls
    /\ \E code \in Codes :
         LET out == verify(otp, code, now)
         IN  /\ otp' = out.row
             /\ otpLast' = OtpCall("verify", code, out.ret)
             /\ otpTrue' = IF out.ret THEN otpTrue + 1 ELSE otpTrue
    /\ UNCHANGED <<previews, reqVars, modVars, botVars, ledgerVars, now, users, regVars, session, courseVars, payVars>>

CheckValidCountsAttempt ==
    /\ otp.attempts < MaxCalls
    /\ otp' = [otp EXCEPT !.attempts = @ + 1]
    /\ otpLast' = OtpCall("is_valid", "", is_valid(otp, now))
    /\ UNCHANGED <<previews, reqVars, modVars, botVars, ledgerVars, now, otpTrue, users, regVars, session, courseVars, payVars>>

\* a caller runs record.is_valid() to display the record's state
CheckValid ==
    /\ otp' = otp
    /\ otpLast' = OtpCall("is_valid", "", is_valid(otp, now))
    /\ UNCHANGED <<previews, reqVars, modVars, botVars, ledgerVars, now, otpTrue, users, regVars, session, courseVars, payVars>>

\* record.delete(): soft delete
DeleteOtp ==
    /\ ~otp.is_deleted
    /\ otp' = soft_delete(otp, now)
    /\ otpLast' = OtpCall("delete", "", FALSE)
    /\ UNCHANGED <<previews, reqVars, modVars, botVars, ledgerVars, now, otpTrue, users, regVars, session, courseVars, payVars>>

\* record.restore()
RestoreOtp ==
    /\ otp.is_deleted
    /\ otp' = restore(otp)
    /\ otpLast' = OtpCall("restore", "", FALSE)
    /\ UNCHANGED <<previews, reqVars, modVars, botVars, ledgerVars, now, otpTrue, users, regVars, session, courseVars, payVars>>

\* a minute passes
Tick ==
    /\ now < MaxNow
    /\ now' = now + 1
    /\ UNCHANGED <<previews, reqVars, modVars, botVars, ledgerVars, otpVars, users, regVars, session, courseVars, payVars>>

NextOtp == Verify \/ CheckValid \/ DeleteOtp \/ RestoreOtp \/ Tick

-----------------------------------------------------------------------------
(* authors/models.py, authors/admin.py: AuthorPayout and its admin *)

PayoutStatus == {"PENDING", "PROCESSING", "COMPLETED", "FAILED", "REJECTED"}

\* the staff users who work in the admin site (request.user)
Admins == {"admin1", "admin2"}
\* processed_by = NULL
NoUser == "none"

\* a new payout request: status and processed_by take the field defaults
NewPayout == [status |-> "PENDING", processed_by |-> NoUser]

PayoutIds == 1..Len(payouts)

\* queryset.filter(status=from).update(status=to): the rows after the update
\* (stamp = TRUE when the update also sets processed_by=request.user)
FilterUpdate(rows, sel, from, to, stamp, admin) ==
    [p \in DOMAIN rows |->
        IF p \in sel /\ rows[p].status = from
        THEN [status |-> to,
              processed_by |-> IF stamp THEN admin ELSE rows[p].processed_by]
        ELSE rows[p]]

approve_payouts_unfiltered(rows, admin, sel) ==
    [p \in DOMAIN rows |->
        IF p \in sel
        THEN [status |-> "PROCESSING", processed_by |-> admin]
        ELSE rows[p]]

\* AuthorPayoutAdmin.approve_payouts
approve_payouts(rows, admin, sel) ==
    FilterUpdate(rows, sel, "PENDING", "PROCESSING", TRUE, admin)

\* AuthorPayoutAdmin.reject_payouts
reject_payouts(rows, admin, sel) ==
    FilterUpdate(rows, sel, "PENDING", "REJECTED", TRUE, admin)

mark_completed_unfiltered(rows, admin, sel) ==
    [p \in DOMAIN rows |->
        IF p \in sel THEN [rows[p] EXCEPT !.status = "COMPLETED"] ELSE rows[p]]

\* AuthorPayoutAdmin.mark_completed
mark_completed(rows, admin, sel) ==
    FilterUpdate(rows, sel, "PROCESSING", "COMPLETED", FALSE, admin)

PayCall(op, admin, sel) == [op |-> op, admin |-> admin, sel |-> sel]

\* a payout request row is created
RequestPayout ==
    /\ Len(payouts) < MaxPayouts
    /\ payouts' = Append(payouts, NewPayout)
    /\ payLast' = PayCall("create", NoUser, {Len(payouts) + 1})
    /\ UNCHANGED <<previews, reqVars, modVars, botVars, ledgerVars, now, otpVars, users, regVars, session, courseVars>>

\* the admin change form: status is an editable field of the payout form
ChangePayout ==
    /\ \E admin \in Admins, p \in PayoutIds, st \in PayoutStatus :
         /\ payouts' = [payouts EXCEPT ![p].status = st]
         /\ payLast' = PayCall("change", admin, {p})
    /\ UNCHANGED <<previews, reqVars, modVars, botVars, ledgerVars, now, otpVars, users, regVars, session, courseVars>>

\* admin action "Approve selected payouts"
ApprovePayouts ==
    /\ \E admin \in Admins, sel \in SUBSET PayoutIds :
         /\ sel # {}
         /\ payouts' = approve_payouts(payouts, admin, sel)
         /\ payLast' = PayCall("approve_payouts", admin, sel)
    /\ UNCHANGED <<previews, reqVars, modVars, botVars, ledgerVars, now, otpVars, users, regVars, session, courseVars>>

\* admin action "Reject selected payouts"
RejectPayouts ==
    /\ \E admin \in Admins, sel \in SUBSET PayoutIds :
         /\ sel # {}
         /\ payouts' = reject_payouts(payouts, admin, sel)
         /\ payLast' = PayCall("reject_payouts", admin, sel)
    /\ UNCHANGED <<previews, reqVars, modVars, botVars, ledgerVars, now, otpVars, users, regVars, session, courseVars>>

\* admin action "Mark as completed"
MarkCompleted ==
    /\ \E admin \in Admins, sel \in SUBSET PayoutIds :
         /\ sel # {}
         /\ payouts' = mark_completed(payouts, admin, sel)
         /\ payLast' = PayCall("mark_completed", admin, sel)
    /\ UNCHANGED <<previews, reqVars, modVars, botVars, ledgerVars, now, otpVars, users, regVars, session, courseVars>>

NextPayout ==
    RequestPayout \/ ChangePayout \/ ApprovePayouts \/ RejectPayouts \/ MarkCompleted

InitPayout ==
    /\ payouts = <<>>
    /\ payLast = PayCall("none", NoUser, {})

-----------------------------------------------------------------------------
(* users/models.py, users/forms.py, users/views.py: registration by phone *)

\* browser sessions
Sessions == {"s1", "s2"}

Digits == {"0", "1", "2", "3", "4", "5", "6", "7", "8", "9"}

\* a phone number is the sequence of its characters
PhoneA == <<"+", "9", "9", "8", "9", "0", "1", "2", "3", "4", "5", "6", "7">>
PhoneB == <<"+", "9", "9", "8", "9", "0", "1", "2", "3", "4", "5", "6", "8">>
\* the same number as PhoneA typed without the plus sign
PhoneBare == <<"9", "9", "8", "9", "0", "1", "2", "3", "4", "5", "6", "7">>

\* what a visitor may type into the phone field
TypedPhones == {PhoneA, PhoneB, PhoneBare}
\* session.get('registration_phone') is None
NoPhone == <<>>

\* phone_regex: ^\+998[0-9]{9}$
phone_regex(p) ==
    /\ Len(p) = 4 + PHONE_DIGITS
    /\ SubSeq(p, 1, 4) = <<"+", "9", "9", "8">>
    /\ \A i \in 5..Len(p) : p[i] \in Digits

\* phone.replace('+', '')
strip_plus(p) == SelectSeq(p, LAMBDA ch : ch # "+")

\* User.objects.filter(phone_number=phone).exists()
phone_exists(rows, phone) ==
    \E i \in DOMAIN rows : rows[i].phone_number = phone

create_user_unchecked(rows, phone, role, verified) ==
    [ok |-> TRUE,
     rows |-> Append(rows, [phone_number |-> phone, role |-> role,
                            phone_verified |-> verified])]

\* UserManager.create_user: user.save() inserts the row unless the unique
\* index on phone_number rejects it (IntegrityError, ok = FALSE)
create_user(rows, phone, role, verified) ==
    IF phone_exists(rows, phone)
    THEN [ok |-> FALSE, rows |-> rows]
    ELSE [ok |-> TRUE,
          rows |-> Append(rows, [phone_number |-> phone, role |-> role,
                                 phone_verified |-> verified])]

\* UserRegistrationForm: the field validator, then clean_phone_number
clean_phone_number(rows, phone) ==
    phone_regex(phone) /\ ~phone_exists(rows, phone)

(* OtpService (utils): a key-value store with expiring entries, keyed by    *)
(* phone and purpose: temp holds registration payloads, otp holds codes.    *)

HasTemp(store, key) == \E e \in store.temp : e.key = key

\* save_user_temp(key, data): refused while an entry for the key is alive
save_user_temp(store, key, data) ==
    IF HasTemp(store, key)
    THEN [ok |-> FALSE, store |-> store]
    ELSE [ok |-> TRUE,
          store |-> [store EXCEPT !.temp = @ \cup {[key |-> key, data |-> data]}]]

\* send_otp(key, code, purpose): the code replaces any pending one
send_otp(store, key, code, purpose) ==
    [store EXCEPT !.otp =
        {e \in @ : ~(e.key = key /\ e.purpose = purpose)}
          \cup {[key |-> key, purpose |-> purpose, code |-> code]}]

\* verify_otp(key, code, purpose): (is_valid, user_data)
verify_otp(store, key, code, purpose) ==
    [is_valid |-> [key |-> key, purpose |-> purpose, code |-> code] \in store.otp,
     user_data |-> IF HasTemp(store, key)
                   THEN (CHOOSE e \in store.temp : e.key = key).data
                   ELSE NoPhone]

\* delete_otp(key, purpose)
delete_otp(store, key, purpose) ==
    [store EXCEPT !.otp = {e \in @ : ~(e.key = key /\ e.purpose = purpose)}]

NewSession ==
    [registration_phone |-> NoPhone, user |-> 0, demo_student_id |-> 0,
     pc |-> "idle", form_phone |-> NoPhone]

RegCall(op, s, phone, outcome) ==
    [op |-> op, sess |-> s, phone |-> phone, outcome |-> outcome]

Anonymous(s) == session[s].user = 0 /\ session[s].pc = "idle"

\* register_phone_view, POST: form.is_valid()
RegisterPhoneValidate ==
    /\ \E s \in Sessions, phone \in TypedPhones :
         /\ Anonymous(s)
         /\ IF clean_phone_number(users, phone)
            THEN /\ session' = [session EXCEPT ![s].pc = "send",
                                               ![s].form_phone = phone]
                 /\ regLast' = RegCall("register_phone", s, phone, "form_valid")
            ELSE /\ session' = session
                 /\ regLast' = RegCall("register_phone", s, phone, "form_error")
    /\ UNCHANGED <<previews, reqVars, modVars, botVars, ledgerVars, now, otpVars, users, otpStore, courseVars, payVars>>

\* register_phone_view, POST, after validation: save_user_temp, send_otp,
\* session['registration_phone'] = phone
RegisterPhoneSend ==
    /\ \E s \in Sessions, code \in Codes :
         /\ session[s].pc = "send"
         /\ LET phone == session[s].form_phone
                key == strip_plus(phone)
                saved == save_user_temp(otpStore, key, phone)
            IN  IF saved.ok
                THEN /\ otpStore' = send_otp(saved.store, key, code, "register")
                     /\ session' = [session EXCEPT ![s].pc = "idle",
                                                   ![s].form_phone = NoPhone,
                                                   ![s].registration_phone = phone]
                     /\ regLast' = RegCall("register_phone", s, phone, "otp_sent")
                ELSE /\ otpStore' = otpStore
                     /\ session' = [session EXCEPT ![s].pc = "idle",
                                                   ![s].form_phone = NoPhone]
                     /\ regLast' = RegCall("register_phone", s, phone, "try_later")
    /\ UNCHANGED <<previews, reqVars, modVars, botVars, ledgerVars, now, otpVars, users, courseVars, payVars>>

\* register_verify_otp_view, POST: verify_otp
RegisterVerifyCheck ==
    /\ \E s \in Sessions, code \in Codes :
         /\ Anonymous(s)
         /\ session[s].registration_phone # NoPhone
         /\ LET phone == session[s].registration_phone
                res == verify_otp(otpStore, strip_plus(phone), code, "register")
            IN  IF res.is_valid /\ res.user_data # NoPhone
                THEN /\ session' = [session EXCEPT ![s].pc = "create",
                                                   ![s].form_phone = res.user_data]
                     /\ regLast' = RegCall("register_verify", s, phone, "otp_ok")
                ELSE /\ session' = session
                     /\ regLast' = RegCall("register_verify", s, phone, "otp_error")
    /\ UNCHANGED <<previews, reqVars, modVars, botVars, ledgerVars, now, otpVars, users, otpStore, courseVars, payVars>>

RegisterVerifyCreateKeepsPhone ==
    /\ \E s \in Sessions :
         /\ session[s].pc = "create"
         /\ Len(users) < MaxUsers
         /\ LET phone == session[s].registration_phone
                made == create_user(users, session[s].form_phone, "STUDENT", TRUE)
            IN  IF made.ok
                THEN /\ users' = made.rows
                     /\ otpStore' = delete_otp(otpStore, strip_plus(phone), "register")
                     /\ session' = [session EXCEPT ![s].pc = "idle",
                                                   ![s].form_phone = NoPhone,
                                                   ![s].user = Len(made.rows)]
                     /\ regLast' = RegCall("register_verify", s, phone, "created")
                ELSE /\ users' = users
                     /\ otpStore' = otpStore
                     /\ session' = [session EXCEPT ![s].pc = "idle",
                                                   ![s].form_phone = NoPhone]
                     /\ regLast' = RegCall("register_verify", s, phone, "create_error")
    /\ UNCHANGED <<previews, reqVars, modVars, botVars, ledgerVars, now, otpVars, courseVars, payVars>>

\* register_verify_otp_view, POST, after a good code: create_user, then the
\* session and OTP clean-up and login; an exception is reported and nothing done
RegisterVerifyCreate ==
    /\ \E s \in Sessions :
         /\ session[s].pc = "create"
         /\ Len(users) < MaxUsers
         /\ LET phone == session[s].registration_phone
                made == create_user(users, session[s].form_phone, "STUDENT", TRUE)
            IN  IF made.ok
                THEN /\ users' = made.rows
                     /\ otpStore' = delete_otp(otpStore, strip_plus(phone), "register")
                     /\ session' = [session EXCEPT ![s].pc = "idle",
                                                   ![s].form_phone = NoPhone,
                                                   ![s].registration_phone = NoPhone,
                                                   ![s].user = Len(made.rows)]
                     /\ regLast' = RegCall("register_verify", s, phone, "created")
                ELSE /\ users' = users
                     /\ otpStore' = otpStore
                     /\ session' = [session EXCEPT ![s].pc = "idle",
                                                   ![s].form_phone = NoPhone]
                     /\ regLast' = RegCall("register_verify", s, phone, "create_error")
    /\ UNCHANGED <<previews, reqVars, modVars, botVars, ledgerVars, now, otpVars, courseVars, payVars>>

\* register_email_view, POST with a valid form: the user gets a placeholder
\* phone, +998 and nine decimal digits of a uuid; the insert may hit the
\* unique index, and then the request fails
RegisterEmail ==
    /\ \E s \in Sessions, placeholder \in {PhoneA, PhoneB} :
         /\ Anonymous(s)
         /\ Len(users) < MaxUsers
         /\ LET made == create_user(users, placeholder, "STUDENT", FALSE)
            IN  IF made.ok
                THEN /\ users' = made.rows
                     /\ session' = [session EXCEPT ![s].user = Len(made.rows)]
                     /\ regLast' = RegCall("register_email", s, placeholder, "created")
                ELSE /\ users' = users
                     /\ session' = session
                     /\ regLast' = RegCall("register_email", s, placeholder, "create_error")
    /\ UNCHANGED <<previews, reqVars, modVars, botVars, ledgerVars, now, otpVars, otpStore, courseVars, payVars>>

\* accounts/logout
Logout ==
    /\ \E s \in Sessions :
         /\ session[s].user # 0 /\ session[s].pc = "idle"
         /\ session' = [session EXCEPT ![s].user = 0]
         /\ regLast' = RegCall("logout", s, NoPhone, "ok")
    /\ UNCHANGED <<previews, reqVars, modVars, botVars, ledgerVars, now, otpVars, users, otpStore, courseVars, payVars>>

\* an entry of the key-value store reaches its time to live
ExpireEntry ==
    /\ \/ \E e \in otpStore.temp : otpStore' = [otpStore EXCEPT !.temp = @ \ {e}]
       \/ \E e \in otpStore.otp : otpStore' = [otpStore EXCEPT !.otp = @ \ {e}]
    /\ regLast' = RegCall("expire", "", NoPhone, "ok")
    /\ UNCHANGED <<previews, reqVars, modVars, botVars, ledgerVars, now, otpVars, users, session, courseVars, payVars>>

NextReg ==
    \/ RegisterPhoneValidate
    \/ RegisterPhoneSend
    \/ RegisterVerifyCheck
    \/ RegisterVerifyCreate
    \/ RegisterEmail
    \/ Logout
    \/ ExpireEntry

InitReg ==
    /\ users = <<>>
    /\ otpStore = [temp |-> {}, otp |-> {}]
    /\ session = [s \in Sessions |-> NewSession]
    /\ regLast = RegCall("none", "", NoPhone, "ok")

-----------------------------------------------------------------------------
(* courses/models.py, courses/views.py, courses/admin.py: one course, its   *)
(* modules and lessons, its enrollments and the lesson progress rows        *)

CourseStatus == {"DRAFT", "PENDING", "PUBLISHED", "REJECTED", "ARCHIVED"}

\* the phone numbers get_or_create_demo_student may draw: +998 and nine
\* hexadecimal digits of a uuid
DemoPhoneA == <<"+", "9", "9", "8", "3", "f", "2", "a", "9", "c", "0", "1", "d">>
DemoPhoneB == <<"+", "9", "9", "8", "7", "0", "4", "1", "5", "5", "2", "6", "3">>
DemoPhones == {DemoPhoneA, DemoPhoneB}

\* SoftDeleteManager.get_queryset: the ids of the rows a default manager sees
live(rows) == {i \in DOMAIN rows : ~rows[i].is_deleted}

\* aggregate(Max('order'))['order__max'] or 0, over the rows in ids
max_order(rows, ids) ==
    IF ids = {} THEN 0
    ELSE CHOOSE n \in {rows[i].order : i \in ids} :
             \A i \in ids : rows[i].order <= n

\* course.modules: the course's modules through the default manager
course_modules == live(modules)

\* module.lessons: the module's lessons through the default manager
module_lessons(m) == {l \in live(lessons) : lessons[l].module = m}

\* Lesson.objects.filter(module__course=course): the join does not filter
\* on the module's is_deleted
course_lessons == live(lessons)

\* CourseEnrollment.objects.filter(course=course, student=student)
enrollment_of(rows, student) == {e \in DOMAIN rows : rows[e].student = student}

get_or_create_always_creates(rows, student) ==
    [created |-> TRUE,
     rows |-> Append(rows, [student |-> student, progress_percentage |-> 0]),
     id |-> Len(rows) + 1]

\* CourseEnrollment.objects.get_or_create(course=course, student=student)
get_or_create_enrollment(rows, student) ==
    IF enrollment_of(rows, student) # {}
    THEN [created |-> FALSE, rows |-> rows,
          id |-> CHOOSE e \in enrollment_of(rows, student) : TRUE]
    ELSE [created |-> TRUE,
          rows |-> Append(rows, [student |-> student, progress_percentage |-> 0]),
          id |-> Len(rows) + 1]

can_publish_counts_deleted ==
    /\ DOMAIN modules # {}
    /\ \E m \in DOMAIN modules : \E l \in DOMAIN lessons : lessons[l].module = m

\* publish_course_view's validation: course.modules.exists() and
\* any(module.lessons.exists() for module in course.modules.all())
can_publish ==
    /\ course_modules # {}
    /\ \E m \in course_modules : module_lessons(m) # {}

\* (completed_lessons / total_lessons) * 100 if total_lessons > 0 else 0,
\* as stored in a DecimalField with two decimal places: in hundredths of a percent
progress_ratio(completed, total) ==
    IF total > 0 THEN (completed * 20000 + total) \div (2 * total) ELSE 0

completed_rows_any(rows, e) == {r \in rows : r.enrollment = e}

\* the progress rows of an enrollment with completed=True
completed_rows(rows, e) == {r \in rows : r.enrollment = e /\ r.completed}

\* the last request: the view, the session it came from, the response
CourseCall(op, s, outcome) == [op |-> op, sess |-> s, outcome |-> outcome]

\* add_module_view with a valid form: order = max order + 1 among the modules
\* the default manager sees; the insert fails when (course, order) is taken
AddModule ==
    /\ Len(modules) < MaxModules
    /\ LET order == max_order(modules, course_modules) + 1
       IN  IF \E m \in DOMAIN modules : modules[m].order = order
           THEN /\ modules' = modules
                /\ courseLast' = CourseCall("add_module", "", "error")
           ELSE /\ modules' = Append(modules, [order |-> order, is_deleted |-> FALSE,
                                               deleted_at |-> None])
                /\ courseLast' = CourseCall("add_module", "", "ok")
    /\ UNCHANGED <<previews, reqVars, modVars, botVars, ledgerVars, now, otpVars, users, regVars, session, course, lessons,
                   enrollments, progress, payVars>>

\* delete_module_view: get_object_or_404(CourseModule, id), then soft delete
DeleteModule ==
    /\ \E m \in live(modules) :
         /\ modules' = [modules EXCEPT ![m] = soft_delete(@, now)]
         /\ courseLast' = CourseCall("delete_module", "", "ok")
    /\ UNCHANGED <<previews, reqVars, modVars, botVars, ledgerVars, now, otpVars, users, regVars, session, course, lessons,
                   enrollments, progress, payVars>>

\* add_lesson_view with a valid form
AddLesson ==
    /\ Len(lessons) < MaxLessons
    /\ \E m \in live(modules) :
         LET order == max_order(lessons, module_lessons(m)) + 1
         IN  IF \E l \in DOMAIN lessons :
                    lessons[l].module = m /\ lessons[l].order = order
             THEN /\ lessons' = lessons
                  /\ courseLast' = CourseCall("add_lesson", "", "error")
             ELSE /\ lessons' = Append(lessons, [module |-> m, order |-> order,
                                                 is_deleted |-> FALSE,
                                                 deleted_at |-> None])
                  /\ courseLast' = CourseCall("add_lesson", "", "ok")
    /\ UNCHANGED <<previews, reqVars, modVars, botVars, ledgerVars, now, otpVars, users, regVars, session, course, modules,
                   enrollments, progress, payVars>>

\* delete_lesson_view: get_object_or_404(Lesson, id), then soft delete
DeleteLesson ==
    /\ \E l \in live(lessons) :
         /\ lessons' = [lessons EXCEPT ![l] = soft_delete(@, now)]
         /\ courseLast' = CourseCall("delete_lesson", "", "ok")
    /\ UNCHANGED <<previews, reqVars, modVars, botVars, ledgerVars, now, otpVars, users, regVars, session, course, modules,
                   enrollments, progress, payVars>>

\* publish_course_view: the author submits the course for review
PublishCourseView ==
    /\ IF can_publish
       THEN /\ course' = [course EXCEPT !.status = "PENDING"]
            /\ courseLast' = CourseCall("publish_course", "", "submitted")
       ELSE /\ course' = course
            /\ courseLast' = CourseCall("publish_course", "", "error")
    /\ UNCHANGED <<previews, reqVars, modVars, botVars, ledgerVars, now, otpVars, users, regVars, session, modules, lessons,
                   enrollments, progress, payVars>>

AdminPublishUnfiltered ==
    /\ course' = [course EXCEPT !.status = "PUBLISHED", !.published_at = now]
    /\ courseLast' = CourseCall("publish_courses", "", "updated")
    /\ UNCHANGED <<previews, reqVars, modVars, botVars, ledgerVars, now, otpVars, users, regVars, session, modules, lessons,
                   enrollments, progress, payVars>>

\* CourseAdmin.publish_courses on the course; the outcome is the count of
\* updated rows that the action reports
AdminPublishCourses ==
    /\ IF course.status = "PENDING"
       THEN /\ course' = [course EXCEPT !.status = "PUBLISHED", !.published_at = now]
            /\ courseLast' = CourseCall("publish_courses", "", "updated")
       ELSE /\ course' = course
            /\ courseLast' = CourseCall("publish_courses", "", "none")
    /\ UNCHANGED <<previews, reqVars, modVars, botVars, ledgerVars, now, otpVars, users, regVars, session, modules, lessons,
                   enrollments, progress, payVars>>

AdminArchiveOnlyPublished ==
    /\ course' = IF course.status = "PUBLISHED"
                 THEN [course EXCEPT !.status = "ARCHIVED"] ELSE course
    /\ courseLast' = CourseCall("archive_courses", "", "ok")
    /\ UNCHANGED <<previews, reqVars, modVars, botVars, ledgerVars, now, otpVars, users, regVars, session, modules, lessons,
                   enrollments, progress, payVars>>

\* CourseAdmin.archive_courses on the course
AdminArchiveCourses ==
    /\ course' = [course EXCEPT !.status = "ARCHIVED"]
    /\ courseLast' = CourseCall("archive_courses", "", "ok")
    /\ UNCHANGED <<previews, reqVars, modVars, botVars, ledgerVars, now, otpVars, users, regVars, session, modules, lessons,
                   enrollments, progress, payVars>>

\* CourseAdmin.mark_pending on the course
AdminMarkPending ==
    /\ course' = [course EXCEPT !.status = "PENDING"]
    /\ courseLast' = CourseCall("mark_pending", "", "ok")
    /\ UNCHANGED <<previews, reqVars, modVars, botVars, ledgerVars, now, otpVars, users, regVars, session, modules, lessons,
                   enrollments, progress, payVars>>

\* enroll_course_view: get_object_or_404 on a PUBLISHED course,
\* get_or_create_demo_student, get_or_create of the enrollment, and the
\* counter update when the row was created
EnrollCourse(S) ==
    /\ \E s \in S, phone \in DemoPhones :
         /\ course.status = "PUBLISHED"
         /\ LET known == session[s].demo_student_id # 0
                made == IF known THEN [ok |-> TRUE, rows |-> users]
                        ELSE create_user(users, phone, "STUDENT", FALSE)
                student == IF known THEN session[s].demo_student_id
                           ELSE Len(made.rows)
                got == get_or_create_enrollment(enrollments, student)
            IN  /\ known \/ Len(users) < MaxUsers
                /\ IF ~made.ok
                   THEN /\ UNCHANGED <<users, session, enrollments, course>>
                        /\ courseLast' = CourseCall("enroll", s, "error")
                   ELSE /\ users' = made.rows
                        /\ session' = [session EXCEPT ![s].demo_student_id = student]
                        /\ enrollments' = got.rows
                        /\ course' = IF got.created
                                     THEN [course EXCEPT !.enrollment_count = @ + 1]
                                     ELSE course
                        /\ courseLast' = CourseCall("enroll", s,
                               IF got.created THEN "created" ELSE "exists")
    /\ UNCHANGED <<previews, reqVars, modVars, botVars, ledgerVars, now, otpVars, regVars, modules, lessons, progress, payVars>>

\* mark_lesson_complete: get_object_or_404(Lesson, id), the session's demo
\* student, the enrollment, get_or_create of the progress row, the recount
MarkLessonComplete(S) ==
    /\ \E s \in S, l \in live(lessons) :
         LET student == session[s].demo_student_id
             found == enrollment_of(enrollments, student)
         IN  IF student = 0
             THEN /\ UNCHANGED <<enrollments, progress>>
                  /\ courseLast' = CourseCall("mark_complete", s, "not_logged_in")
             ELSE IF found = {}
             THEN /\ UNCHANGED <<enrollments, progress>>
                  /\ courseLast' = CourseCall("mark_complete", s, "not_enrolled")
             ELSE LET e == CHOOSE x \in found : TRUE
                      rows == {r \in progress : ~(r.enrollment = e /\ r.lesson = l)}
                                 \cup {[enrollment |-> e, lesson |-> l, completed |-> TRUE]}
                      total_lessons == Cardinality(course_lessons)
                      completed_lessons == Cardinality(completed_rows(rows, e))
                  IN  /\ progress' = rows
                      /\ enrollments' = [enrollments EXCEPT ![e].progress_percentage =
                                            progress_ratio(completed_lessons, total_lessons)]
                      /\ courseLast' = CourseCall("mark_complete", s, "ok")
    /\ UNCHANGED <<previews, reqVars, modVars, botVars, ledgerVars, now, otpVars, users, regVars, session, course, modules, lessons,
                   payVars>>

\* enroll_course_view as the two database accesses it makes. First
\* get_object_or_404(Course, slug, status=PUBLISHED): the request now holds its
\* own Course object with the enrollment_count of this moment
EnrollLoad ==
    /\ \E s \in Sessions :
         /\ enrolling.loaded[s] = None
         /\ course.status = "PUBLISHED"
         /\ enrolling' =
              [loaded |-> [enrolling.loaded EXCEPT ![s] = course.enrollment_count],
               overlapped |-> \/ enrolling.overlapped
                              \/ \E o \in Sessions \ {s} : enrolling.loaded[o] # None]
    /\ UNCHANGED <<previews, linking, modVars, botVars, ledgerVars, now, otpVars, users, regVars,
                   session, courseVars, payVars>>

EnrollSaveAlwaysCounts ==
    /\ \E s \in Sessions, phone \in DemoPhones :
         /\ enrolling.loaded[s] # None
         /\ LET known == session[s].demo_student_id # 0
                made == IF known THEN [ok |-> TRUE, rows |-> users]
                        ELSE create_user(users, phone, "STUDENT", FALSE)
                student == IF known THEN session[s].demo_student_id
                           ELSE Len(made.rows)
                got == get_or_create_enrollment(enrollments, student)
            IN  /\ known \/ Len(users) < MaxUsers
                /\ IF ~made.ok
                   THEN /\ UNCHANGED <<users, session, enrollments, course>>
                        /\ courseLast' = CourseCall("enroll", s, "error")
                   ELSE /\ users' = made.rows
                        /\ session' = [session EXCEPT ![s].demo_student_id = student]
                        /\ enrollments' = got.rows
                        /\ course' = [course EXCEPT !.enrollment_count =
                                          enrolling.loaded[s] + 1]
                        /\ courseLast' = CourseCall("enroll", s,
                               IF got.created THEN "created" ELSE "exists")
         /\ enrolling' = [enrolling EXCEPT !.loaded[s] = None]
    /\ UNCHANGED <<previews, linking, modVars, botVars, ledgerVars, now, otpVars, regVars, modules,
                   lessons, progress, payVars>>

\* ... then the demo student, get_or_create of the enrollment and, when the
\* row was created, course.enrollment_count += 1 on the request's own object
\* and course.save(update_fields=['enrollment_count'])
EnrollSave ==
    /\ \E s \in Sessions, phone \in DemoPhones :
         /\ enrolling.loaded[s] # None
         /\ LET known == session[s].demo_student_id # 0
                made == IF known THEN [ok |-> TRUE, rows |-> users]
                        ELSE create_user(users, phone, "STUDENT", FALSE)
                student == IF known THEN session[s].demo_student_id
                           ELSE Len(made.rows)
                got == get_or_create_enrollment(enrollments, student)
            IN  /\ known \/ Len(users) < MaxUsers
                /\ IF ~made.ok
                   THEN /\ UNCHANGED <<users, session, enrollments, course>>
                        /\ courseLast' = CourseCall("enroll", s, "error")
                   ELSE /\ users' = made.rows
                        /\ session' = [session EXCEPT ![s].demo_student_id = student]
                        /\ enrollments' = got.rows
                        /\ course' = IF got.created
                                     THEN [course EXCEPT !.enrollment_count =
                                              enrolling.loaded[s] + 1]
                                     ELSE course
                        /\ courseLast' = CourseCall("enroll", s,
                               IF got.created THEN "created" ELSE "exists")
         /\ enrolling' = [enrolling EXCEPT !.loaded[s] = None]
    /\ UNCHANGED <<previews, linking, modVars, botVars, ledgerVars, now, otpVars, regVars, modules,
                   lessons, progress, payVars>>

\* enroll_course_view requests of the two sessions, running concurrently
NextEnrollRace ==
    \/ AdminMarkPending
    \/ AdminPublishCourses
    \/ AdminArchiveCourses
    \/ EnrollLoad
    \/ EnrollSave

\* update_lesson_progress: get_or_create of the progress row with the posted
\* watch percentage; completed keeps its default (False) on a new row and is
\* never written on an existing one; the percentage of the enrollment is not
\* recomputed
UpdateLessonProgress(S) ==
    /\ \E s \in S, l \in live(lessons) :
         LET student == session[s].demo_student_id
             found == enrollment_of(enrollments, student)
         IN  IF student = 0
             THEN /\ progress' = progress
                  /\ courseLast' = CourseCall("update_progress", s, "not_logged_in")
             ELSE IF found = {}
             THEN /\ progress' = progress
                  /\ courseLast' = CourseCall("update_progress", s, "not_enrolled")
             ELSE LET e == CHOOSE x \in found : TRUE
                  IN  /\ progress' =
                           IF \E r \in progress : r.enrollment = e /\ r.lesson = l
                           THEN progress
                           ELSE progress \cup {[enrollment |-> e, lesson |-> l,
                                                completed |-> FALSE]}
                      /\ courseLast' = CourseCall("update_progress", s, "ok")
    /\ UNCHANGED <<previews, reqVars, modVars, botVars, ledgerVars, now, otpVars, users, regVars, session,
                   course, modules, lessons, enrollments, payVars>>

\* enrollment: the admin actions that change the course's status, and
\* enroll_course_view from every session
NextEnroll ==
    \/ AdminMarkPending
    \/ AdminPublishCourses
    \/ AdminArchiveCourses
    \/ EnrollCourse(Sessions)

\* the course builder and the course's way through review
NextBuilder ==
    \/ AddModule
    \/ DeleteModule
    \/ AddLesson
    \/ DeleteLesson
    \/ PublishCourseView
    \/ AdminPublishCourses
    \/ AdminArchiveCourses
    \/ AdminMarkPending

\* the student whose progress is followed (progress rows belong to one
\* enrollment; no view reads another student's rows)
Learner == {"s1"}

\* progress: the builder, the course's way to PUBLISHED, and one student who
\* enrolls and completes lessons
NextProgress ==
    \/ AddModule
    \/ DeleteModule
    \/ AddLesson
    \/ DeleteLesson
    \/ PublishCourseView
    \/ AdminPublishCourses
    \/ EnrollCourse(Learner)
    \/ MarkLessonComplete(Learner)

\* the recount of the percentage: lessons come and go while one student
\* enrolls, watches and completes lessons
NextRecount ==
    \/ AddModule
    \/ AddLesson
    \/ DeleteLesson
    \/ PublishCourseView
    \/ AdminPublishCourses
    \/ EnrollCourse(Learner)
    \/ UpdateLessonProgress(Learner)
    \/ MarkLessonComplete(Learner)

\* edit_lesson_view with a valid LessonForm: is_preview is a field of the form
EditLesson ==
    /\ \E l \in live(lessons), is_preview \in BOOLEAN :
         /\ previews' = IF is_preview THEN previews \cup {l} ELSE previews \ {l}
         /\ courseLast' = CourseCall("edit_lesson", "", "ok")
    /\ UNCHANGED <<reqVars, modVars, botVars, ledgerVars, now, otpVars, users, regVars,
                   session, course, modules, lessons, enrollments, progress, payVars>>

\* no lesson: lesson_id is None, current_lesson is None
NoLesson == 0

\* the row with the lowest order among ids
first_by_order(rows, ids) ==
    CHOOSE i \in ids : \A j \in ids : rows[i].order <= rows[j].order

\* course_learn_view without lesson_id: the first lesson of the first module
\* (by order) that has lessons
first_lesson ==
    LET with_lessons == {m \in course_modules : module_lessons(m) # {}}
    IN  IF with_lessons = {}
        THEN NoLesson
        ELSE first_by_order(lessons, module_lessons(first_by_order(modules, with_lessons)))

LearnCall(s, outcome, lesson, can_access) ==
    [op |-> "learn", sess |-> s, outcome |-> outcome, lesson |-> lesson,
     can_access |-> can_access]

course_learn_grants_all(enrollment, current_lesson) ==
    enrollment # {} \/ current_lesson # NoLesson

\* can_access: the student is enrolled, or the current lesson is a preview
course_learn_can_access(enrollment, current_lesson) ==
    IF enrollment # {}
    THEN TRUE
    ELSE current_lesson # NoLesson /\ current_lesson \in previews

\* course_learn_view: the PUBLISHED course, the session's demo student
\* (created when the session has none), the enrollment lookup, the current
\* lesson (404 when lesson_id is not a non-deleted lesson of the course),
\* can_access
CourseLearn(S) ==
    /\ \E s \in S, phone \in DemoPhones, lesson_id \in {NoLesson} \cup DOMAIN lessons :
         /\ course.status = "PUBLISHED"
         /\ LET known == session[s].demo_student_id # 0
                made == IF known THEN [ok |-> TRUE, rows |-> users]
                        ELSE create_user(users, phone, "STUDENT", FALSE)
                student == IF known THEN session[s].demo_student_id
                           ELSE Len(made.rows)
                enrollment == enrollment_of(enrollments, student)
                current_lesson == IF lesson_id # NoLesson THEN lesson_id
                                  ELSE first_lesson
            IN  /\ known \/ Len(users) < MaxUsers
                /\ IF ~made.ok
                   THEN /\ UNCHANGED <<users, session>>
                        /\ courseLast' = LearnCall(s, "error", NoLesson, FALSE)
                   ELSE /\ users' = made.rows
                        /\ session' = [session EXCEPT ![s].demo_student_id = student]
                        /\ courseLast' =
                             IF lesson_id # NoLesson /\ lesson_id \notin live(lessons)
                             THEN LearnCall(s, "not_found", NoLesson, FALSE)
                             ELSE LearnCall(s, "ok", current_lesson,
                                     course_learn_can_access(enrollment, current_lesson))
    /\ UNCHANGED <<previews, reqVars, modVars, botVars, ledgerVars, now, otpVars, regVars,
                   course, modules, lessons, enrollments, progress, payVars>>

\* the learning page: lessons and previews come and go while a visitor opens
\* the page before and after enrolling
NextLearn ==
    \/ AddModule
    \/ AddLesson
    \/ EditLesson
    \/ DeleteLesson
    \/ PublishCourseView
    \/ AdminPublishCourses
    \/ EnrollCourse(Learner)
    \/ CourseLearn(Learner)

\* edit_course_view with a valid CourseForm: the form has no status field, and
\* none of the fields it saves is followed here
EditCourse ==
    /\ course' = course
    /\ courseLast' = CourseCall("edit_course", "", "ok")
    /\ UNCHANGED <<previews, reqVars, modVars, botVars, ledgerVars, now, otpVars, users, regVars, session, modules, lessons,
                   enrollments, progress, payVars>>

\* the admin change form of the course: status is an editable field,
\* published_at and enrollment_count are read-only
ChangeCourse ==
    /\ \E st \in CourseStatus : course' = [course EXCEPT !.status = st]
    /\ courseLast' = CourseCall("change_form", "", "ok")
    /\ UNCHANGED <<previews, reqVars, modVars, botVars, ledgerVars, now, otpVars, users, regVars, session, modules, lessons,
                   enrollments, progress, payVars>>

\* the course's lifecycle: the author builds, edits and submits, the admin
\* publishes, archives, resets or edits the status, and one student enrolls
\* and completes lessons
NextLifecycle ==
    \/ AddModule
    \/ AddLesson
    \/ EditCourse
    \/ PublishCourseView
    \/ AdminPublishCourses
    \/ AdminArchiveCourses
    \/ AdminMarkPending
    \/ ChangeCourse
    \/ EnrollCourse(Learner)
    \/ MarkLessonComplete(Learner)

\* AllObjectsManager.get_queryset: the ids of all rows, deleted ones included
all_objects(rows) == DOMAIN rows

\* instance.delete() on a CourseModule fetched through all_objects
DeleteInstance ==
    /\ \E m \in all_objects(modules) :
         modules' = [modules EXCEPT ![m] = soft_delete(@, now)]
    /\ courseLast' = CourseCall("delete", "", "ok")
    /\ UNCHANGED <<previews, reqVars, modVars, botVars, ledgerVars, now, otpVars, users, regVars, session,
                   course, lessons, enrollments, progress, payVars>>

\* instance.restore() on a CourseModule fetched through all_objects
RestoreInstance ==
    /\ \E m \in all_objects(modules) :
         modules' = [modules EXCEPT ![m] = restore(@)]
    /\ courseLast' = CourseCall("restore", "", "ok")
    /\ UNCHANGED <<previews, reqVars, modVars, botVars, ledgerVars, now, otpVars, users, regVars, session,
                   course, lessons, enrollments, progress, payVars>>

\* soft delete on the rows of one BaseModel table, over time
NextSoftDelete == AddModule \/ DeleteInstance \/ RestoreInstance \/ Tick

\* the state after create_course_view: one DRAFT course without modules
InitCourse ==
    /\ course = [status |-> "DRAFT", enrollment_count |-> 0, published_at |-> None]
    /\ modules = <<>>
    /\ lessons = <<>>
    /\ enrollments = <<>>
    /\ progress = {}
    /\ courseLast = CourseCall("create_course", "", "ok")
    /\ enrolling = [loaded |-> [s \in Sessions |-> None], overlapped |-> FALSE]
    /\ previews = {}

-----------------------------------------------------------------------------
(* payments/models.py, payments/admin.py: Transaction, RefundRequest and   *)
(* their admins                                                            *)

TransactionStatus == {"PENDING", "SUCCESS", "FAILED", "REFUNDED", "CANCELLED"}

RefundStatus == {"PENDING", "APPROVED", "REJECTED", "COMPLETED"}

\* a new transaction: status PENDING, completed_at NULL (the field defaults)
NewTransaction == [status |-> "PENDING", completed_at |-> None]

\* a new refund request: status PENDING, nothing reviewed, no refund transaction
NewRefundRequest ==
    [status |-> "PENDING", reviewed_by |-> NoUser, reviewed_at |-> None,
     refund_transaction |-> None]

TxnIds == 1..Len(txns)
RefundIds == 1..Len(refunds)

mark_success_unfiltered(rows, sel, t) ==
    [x \in DOMAIN rows |->
        IF x \in sel THEN [status |-> "SUCCESS", completed_at |-> t] ELSE rows[x]]

\* TransactionAdmin.mark_success:
\* queryset.filter(status=PENDING).update(status=SUCCESS, completed_at=now)
mark_success(rows, sel, t) ==
    [x \in DOMAIN rows |->
        IF x \in sel /\ rows[x].status = "PENDING"
        THEN [status |-> "SUCCESS", completed_at |-> t]
        ELSE rows[x]]

\* TransactionAdmin.mark_failed:
\* queryset.filter(status=PENDING).update(status=FAILED)
mark_failed(rows, sel) ==
    [x \in DOMAIN rows |->
        IF x \in sel /\ rows[x].status = "PENDING"
        THEN [rows[x] EXCEPT !.status = "FAILED"]
        ELSE rows[x]]

\* queryset.filter(status=PENDING).update(status=to, reviewed_by=request.user,
\* reviewed_at=timezone.now())
ReviewUpdate(rows, sel, to, admin, t) ==
    [r \in DOMAIN rows |->
        IF r \in sel /\ rows[r].status = "PENDING"
        THEN [rows[r] EXCEPT !.status = to, !.reviewed_by = admin,
                             !.reviewed_at = t]
        ELSE rows[r]]

reject_refunds_unfiltered(rows, admin, sel, t) ==
    [r \in DOMAIN rows |->
        IF r \in sel
        THEN [rows[r] EXCEPT !.status = "REJECTED", !.reviewed_by = admin,
                             !.reviewed_at = t]
        ELSE rows[r]]

\* RefundRequestAdmin.approve_refunds
approve_refunds(rows, admin, sel, t) == ReviewUpdate(rows, sel, "APPROVED", admin, t)

\* RefundRequestAdmin.reject_refunds
reject_refunds(rows, admin, sel, t) == ReviewUpdate(rows, sel, "REJECTED", admin, t)

LedgerCall(op, admin, sel) == [op |-> op, admin |-> admin, sel |-> sel]

\* a transaction row is created
AddTransaction ==
    /\ Len(txns) < MaxTxns
    /\ txns' = Append(txns, NewTransaction)
    /\ txnLast' = LedgerCall("create", NoUser, {Len(txns) + 1})
    /\ UNCHANGED <<previews, reqVars, modVars, botVars, now, otpVars, users, regVars, session, courseVars, payVars,
                   refunds, refLast>>

\* the admin change form of a transaction: status is editable, completed_at
\* is a read-only field
ChangeTransaction ==
    /\ \E x \in TxnIds, st \in TransactionStatus :
         /\ txns' = [txns EXCEPT ![x].status = st]
         /\ txnLast' = LedgerCall("change", NoUser, {x})
    /\ UNCHANGED <<previews, reqVars, modVars, botVars, now, otpVars, users, regVars, session, courseVars, payVars,
                   refunds, refLast>>

\* admin action "Mark as Success"
MarkSuccess ==
    /\ \E sel \in SUBSET TxnIds :
         /\ sel # {}
         /\ txns' = mark_success(txns, sel, now)
         /\ txnLast' = LedgerCall("mark_success", NoUser, sel)
    /\ UNCHANGED <<previews, reqVars, modVars, botVars, now, otpVars, users, regVars, session, courseVars, payVars,
                   refunds, refLast>>

\* admin action "Mark as Failed"
MarkFailed ==
    /\ \E sel \in SUBSET TxnIds :
         /\ sel # {}
         /\ txns' = mark_failed(txns, sel)
         /\ txnLast' = LedgerCall("mark_failed", NoUser, sel)
    /\ UNCHANGED <<previews, reqVars, modVars, botVars, now, otpVars, users, regVars, session, courseVars, payVars,
                   refunds, refLast>>

NextTxn == AddTransaction \/ ChangeTransaction \/ MarkSuccess \/ MarkFailed \/ Tick

\* a refund request row is created
AddRefundRequest ==
    /\ Len(refunds) < MaxRefunds
    /\ refunds' = Append(refunds, NewRefundRequest)
    /\ refLast' = LedgerCall("create", NoUser, {Len(refunds) + 1})
    /\ UNCHANGED <<previews, reqVars, modVars, botVars, now, otpVars, users, regVars, session, courseVars, payVars,
                   txns, txnLast>>

\* the admin change form of a refund request; of its editable fields the model
\* follows status and refund_transaction
\* (a raw id of an existing transaction, or empty); reviewed_at
\* is a read-only field
ChangeRefund ==
    /\ \E admin \in Admins, r \in RefundIds, st \in RefundStatus,
          x \in TxnIds \cup {None} :
         /\ refunds' = [refunds EXCEPT ![r].status = st,
                                       ![r].refund_transaction = x]
         /\ refLast' = LedgerCall("change", admin, {r})
    /\ UNCHANGED <<previews, reqVars, modVars, botVars, now, otpVars, users, regVars, session, courseVars, payVars,
                   txns, txnLast>>

\* admin action "Approve selected refunds"
ApproveRefunds ==
    /\ \E admin \in Admins, sel \in SUBSET RefundIds :
         /\ sel # {}
         /\ refunds' = approve_refunds(refunds, admin, sel, now)
         /\ refLast' = LedgerCall("approve_refunds", admin, sel)
    /\ UNCHANGED <<previews, reqVars, modVars, botVars, now, otpVars, users, regVars, session, courseVars, payVars,
                   txns, txnLast>>

\* admin action "Reject selected refunds"
RejectRefunds ==
    /\ \E admin \in Admins, sel \in SUBSET RefundIds :
         /\ sel # {}
         /\ refunds' = reject_refunds(refunds, admin, sel, now)
         /\ refLast' = LedgerCall("reject_refunds", admin, sel)
    /\ UNCHANGED <<previews, reqVars, modVars, botVars, now, otpVars, users, regVars, session, courseVars, payVars,
                   txns, txnLast>>

NextRefund ==
    AddRefundRequest \/ ChangeRefund \/ ApproveRefunds \/ RejectRefunds

\* the refund desk with the transaction list it links to
NextRefundLedger == NextRefund \/ AddTransaction

InitLedger ==
    /\ txns = <<>>
    /\ txnLast = LedgerCall("none", NoUser, {})
    /\ refunds = <<>>
    /\ refLast = LedgerCall("none", NoUser, {})

-----------------------------------------------------------------------------
(* moderation/models.py, moderation/admin.py: CourseModeration records of   *)
(* the course and their admin actions                                       *)

ModerationStatus ==
    {"PENDING", "IN_REVIEW", "APPROVED", "REJECTED", "CHANGES_REQUESTED"}

\* a new moderation record of the course: status PENDING, no reviewer
NewModeration == [status |-> "PENDING", reviewer |-> NoUser, reviewed_at |-> None]

ModerationIds == 1..Len(moderation)

\* ActionType: the types of admin action a ModerationLog row can name
ActionType ==
    {"COURSE_APPROVED", "COURSE_REJECTED", "USER_BANNED", "USER_UNBANNED",
     "PAYOUT_APPROVED", "PAYOUT_REJECTED", "REFUND_APPROVED", "REFUND_REJECTED",
     "CONFIG_CHANGED", "OTHER"}

\* a ModerationLog row: the acting admin and the action type
NewModerationLog(admin, type) == [admin |-> admin, action_type |-> type]

\* queryset.update(status=to, reviewer=request.user, reviewed_at=timezone.now())
ModerationUpdate(rows, sel, to, admin, t) ==
    [r \in DOMAIN rows |->
        IF r \in sel
        THEN [status |-> to, reviewer |-> admin, reviewed_at |-> t]
        ELSE rows[r]]

ModCall(op, admin, sel) == [op |-> op, admin |-> admin, sel |-> sel]

\* a moderation record is created for the course
AddModeration ==
    /\ Len(moderation) < MaxModerations
    /\ moderation' = Append(moderation, NewModeration)
    /\ modLast' = ModCall("create", NoUser, {Len(moderation) + 1})
    /\ UNCHANGED <<previews, reqVars, moderation_logs, botVars, ledgerVars, now, otpVars, users,
                   regVars, session, courseVars, payVars>>

\* admin action "Approve selected courses": only the moderation rows are
\* updated
ApproveCourses ==
    /\ \E admin \in Admins, sel \in SUBSET ModerationIds :
         /\ sel # {}
         /\ moderation' = ModerationUpdate(moderation, sel, "APPROVED", admin, now)
         /\ modLast' = ModCall("approve_courses", admin, sel)
    /\ UNCHANGED <<previews, reqVars, moderation_logs, botVars, ledgerVars, now, otpVars, users,
                   regVars, session, courseVars, payVars>>

\* admin action "Reject selected courses"
RejectCourses ==
    /\ \E admin \in Admins, sel \in SUBSET ModerationIds :
         /\ sel # {}
         /\ moderation' = ModerationUpdate(moderation, sel, "REJECTED", admin, now)
         /\ modLast' = ModCall("reject_courses", admin, sel)
    /\ UNCHANGED <<previews, reqVars, moderation_logs, botVars, ledgerVars, now, otpVars, users,
                   regVars, session, courseVars, payVars>>

\* admin action "Request changes for selected courses"
RequestChanges ==
    /\ \E admin \in Admins, sel \in SUBSET ModerationIds :
         /\ sel # {}
         /\ moderation' = ModerationUpdate(moderation, sel, "CHANGES_REQUESTED",
                                           admin, now)
         /\ modLast' = ModCall("request_changes", admin, sel)
    /\ UNCHANGED <<previews, reqVars, moderation_logs, botVars, ledgerVars, now, otpVars, users,
                   regVars, session, courseVars, payVars>>

\* moderation of the course: its records and their admin actions, next to the
\* course admin actions that move the course to PENDING and to PUBLISHED
NextModeration ==
    \/ AddModeration
    \/ ApproveCourses
    \/ RejectCourses
    \/ RequestChanges
    \/ AdminMarkPending
    \/ AdminPublishCourses

InitModeration ==
    /\ moderation = <<>>
    /\ modLast = ModCall("none", NoUser, {})
    /\ moderation_logs = <<>>

-----------------------------------------------------------------------------
(* users/views.py: phone login; bot/main.py, bot/functions.py: the bot *)

\* the Telegram accounts that talk to the bot (message.from_user.id)
Chats == {"c1", "c2"}

\* contact.phone_number as Telegram hands it over, with or without the plus
SharedPhones == {PhoneA, PhoneB, PhoneBare}

\* no pending code (get_otp returns None)
NoCode == ""

\* contact_handler: "keep only digits"
digits_only(p) == SelectSeq(p, LAMBDA ch : ch \in Digits)

\* get_user_by_phone: User.objects.filter(phone_number=phone).first(), the
\* user's id, or 0 for None
get_user_by_phone(rows, phone) ==
    IF phone_exists(rows, phone)
    THEN CHOOSE i \in DOMAIN rows : rows[i].phone_number = phone
    ELSE 0

\* OtpService.get_otp(key, purpose): the pending code, or None
get_otp(store, key, purpose) ==
    IF \E e \in store.otp : e.key = key /\ e.purpose = purpose
    THEN (CHOOSE e \in store.otp : e.key = key /\ e.purpose = purpose).code
    ELSE NoCode

set_telegram_id_overwrites(pairs, user, chat) ==
    IF \E t \in pairs : t.chat = chat /\ t.user # user
    THEN [ok |-> FALSE, updated |-> FALSE, pairs |-> pairs]
    ELSE [ok |-> TRUE, updated |-> TRUE,
          pairs |-> {t \in pairs : t.user # user} \cup {[user |-> user, chat |-> chat]}]

\* set_telegram_id_if_null: filter(id=user_id, telegram_id__isnull=True)
\* .update(telegram_id=...), one UPDATE statement; updated is the returned
\* bool(rows updated); the unique index on telegram_id rejects a chat that
\* another user already has (ok = FALSE, the statement raises)
set_telegram_id_if_null(pairs, user, chat) ==
    IF \E t \in pairs : t.user = user
    THEN [ok |-> TRUE, updated |-> FALSE, pairs |-> pairs]
    ELSE IF \E t \in pairs : t.chat = chat
    THEN [ok |-> FALSE, updated |-> FALSE, pairs |-> pairs]
    ELSE [ok |-> TRUE, updated |-> TRUE,
          pairs |-> pairs \cup {[user |-> user, chat |-> chat]}]

BotMessage(kind, code) == [kind |-> kind, code |-> code]

\* login_phone_view, POST: PhoneLoginForm, the user and password check, then
\* send_otp under the phone without its plus and session['login_phone']
LoginPhone ==
    /\ \E s \in Sessions, phone \in TypedPhones, password_ok \in BOOLEAN,
          code \in Codes :
         /\ Anonymous(s)
         /\ IF ~phone_regex(phone)
            THEN /\ UNCHANGED <<otpStore, login_phone>>
                 /\ regLast' = RegCall("login_phone", s, phone, "form_error")
            ELSE IF ~phone_exists(users, phone)
            THEN /\ UNCHANGED <<otpStore, login_phone>>
                 /\ regLast' = RegCall("login_phone", s, phone, "no_account")
            ELSE IF ~password_ok
            THEN /\ UNCHANGED <<otpStore, login_phone>>
                 /\ regLast' = RegCall("login_phone", s, phone, "bad_password")
            ELSE /\ otpStore' = send_otp(otpStore, strip_plus(phone), code, "login")
                 /\ login_phone' = [login_phone EXCEPT ![s] = phone]
                 /\ regLast' = RegCall("login_phone", s, phone, "otp_sent")
    /\ UNCHANGED <<previews, reqVars, modVars, ledgerVars, now, otpVars, users, session, telegram,
                   botReply, courseVars, payVars>>

LoginVerifyAnyCode ==
    /\ \E s \in Sessions, code \in Codes :
         /\ Anonymous(s)
         /\ login_phone[s] # NoPhone
         /\ LET phone == login_phone[s]
                user == get_user_by_phone(users, phone)
            IN  /\ session' = [session EXCEPT ![s].user = user]
                /\ login_phone' = [login_phone EXCEPT ![s] = NoPhone]
                /\ otpStore' = delete_otp(otpStore, strip_plus(phone), "login")
                /\ regLast' = ([code |-> code] @@
                               RegCall("login_verify", s, phone, "logged_in"))
    /\ UNCHANGED <<previews, reqVars, modVars, ledgerVars, now, otpVars, users, telegram,
                   botReply, courseVars, payVars>>

\* login_verify_otp_view, POST with a valid form: verify_otp with purpose
\* 'login' for the session's login_phone, then the user lookup, login() and
\* the clean-up of the session key and of the code
LoginVerify ==
    /\ \E s \in Sessions, code \in Codes :
         /\ Anonymous(s)
         /\ login_phone[s] # NoPhone
         /\ LET phone == login_phone[s]
                res == verify_otp(otpStore, strip_plus(phone), code, "login")
                user == get_user_by_phone(users, phone)
            IN  IF ~res.is_valid
                THEN /\ UNCHANGED <<session, login_phone, otpStore>>
                     /\ regLast' = ([code |-> code] @@
                                    RegCall("login_verify", s, phone, "otp_error"))
                ELSE IF user = 0
                THEN /\ UNCHANGED <<session, login_phone, otpStore>>
                     /\ regLast' = ([code |-> code] @@
                                    RegCall("login_verify", s, phone, "user_not_found"))
                ELSE /\ session' = [session EXCEPT ![s].user = user]
                     /\ login_phone' = [login_phone EXCEPT ![s] = NoPhone]
                     /\ otpStore' = delete_otp(otpStore, strip_plus(phone), "login")
                     /\ regLast' = ([code |-> code] @@
                                    RegCall("login_verify", s, phone, "logged_in"))
    /\ UNCHANGED <<previews, reqVars, modVars, ledgerVars, now, otpVars, users, telegram,
                   botReply, courseVars, payVars>>

\* phone login of accounts that exist: both steps in two sessions, logout,
\* and codes that expire
NextLogin ==
    \/ RegisterEmail
    \/ Logout
    \/ LoginPhone
    \/ LoginVerify
    \/ ExpireEntry

\* no contact handler is running for the chat
NoHandler == [user |-> 0, telegram_id |-> ""]
\* no call of set_telegram_id_if_null has returned yet
NoLink == [chat |-> "", user |-> 0, updated |-> FALSE]

\* users.telegram_id of the user, "" for null
telegram_id_of(pairs, user) ==
    IF \E t \in pairs : t.user = user
    THEN (CHOOSE t \in pairs : t.user = user).chat
    ELSE ""

\* contact_handler from the point where get_user_by_phone has returned a
\* user: the handler holds the User object as it was read
HandlerFound ==
    /\ \E chat \in Chats, user \in DOMAIN users :
         /\ linking.found[chat] = NoHandler
         /\ linking' = [linking EXCEPT !.found[chat] =
                           [user |-> user,
                            telegram_id |-> telegram_id_of(telegram, user)]]
    /\ UNCHANGED <<previews, enrolling, modVars, botVars, ledgerVars, now, otpVars, users, regVars,
                   session, courseVars, payVars>>

\* ... `if not user.telegram_id: await set_telegram_id_if_null(user.id,
\* message.from_user.id)`; an exception ends the handler with the error answer
HandlerLink ==
    /\ \E chat \in Chats :
         /\ linking.found[chat] # NoHandler
         /\ LET user == linking.found[chat].user
                res == set_telegram_id_if_null(telegram, user, chat)
            IN  IF linking.found[chat].telegram_id # ""
                THEN /\ telegram' = telegram
                     /\ linking' = [linking EXCEPT !.found[chat] = NoHandler]
                ELSE /\ telegram' = res.pairs
                     /\ linking' = [found |-> [linking.found EXCEPT ![chat] = NoHandler],
                                    last |-> [chat |-> chat, user |-> user,
                                              updated |-> res.updated]]
    /\ UNCHANGED <<previews, enrolling, modVars, login_phone, botReply, ledgerVars, now, otpVars,
                   users, regVars, session, courseVars, payVars>>

\* UserRole
UserRole == {"STUDENT", "AUTHOR", "ADMIN"}

\* request.user.role = 'AUTHOR'; request.user.save()
set_role_author(rows, user) == [rows EXCEPT ![user].role = "AUTHOR"]

\* the session is logged in (login_required, request.user.is_authenticated)
Authenticated(s) == session[s].user # 0 /\ session[s].pc = "idle"

\* manage.py createsuperuser: UserManager.create_superuser, role ADMIN
CreateSuperuser ==
    /\ \E phone \in {PhoneA, PhoneB} :
         /\ Len(users) < MaxUsers
         /\ LET made == create_user(users, phone, "ADMIN", FALSE)
            IN  IF made.ok
                THEN /\ users' = made.rows
                     /\ regLast' = RegCall("createsuperuser", "", phone, "created")
                ELSE /\ users' = users
                     /\ regLast' = RegCall("createsuperuser", "", phone, "create_error")
    /\ UNCHANGED <<previews, reqVars, modVars, botVars, ledgerVars, now, otpVars, otpStore,
                   session, courseVars, payVars>>

\* switch_to_instructor_view: on POST the role is set to AUTHOR, whatever it was
SwitchToInstructor ==
    /\ \E s \in Sessions, method \in {"GET", "POST"} :
         /\ Authenticated(s)
         /\ users' = IF method = "POST" THEN set_role_author(users, session[s].user)
                     ELSE users
         /\ regLast' = RegCall("switch_to_instructor", s, NoPhone, method)
    /\ UNCHANGED <<previews, reqVars, modVars, botVars, ledgerVars, now, otpVars, otpStore,
                   session, courseVars, payVars>>

\* select_role_view(role): 'author' sets the role to AUTHOR unless it is AUTHOR
SelectRole ==
    /\ \E s \in Sessions, role \in {"student", "author", "admin"} :
         /\ Authenticated(s)
         /\ users' = IF role = "author" /\ users[session[s].user].role # "AUTHOR"
                     THEN set_role_author(users, session[s].user)
                     ELSE users
         /\ regLast' = RegCall("select_role", s, NoPhone, role)
    /\ UNCHANGED <<previews, reqVars, modVars, botVars, ledgerVars, now, otpVars, otpStore,
                   session, courseVars, payVars>>

\* author_dashboard_view: sets the role to AUTHOR unless it is AUTHOR
AuthorDashboard ==
    /\ \E s \in Sessions :
         /\ Authenticated(s)
         /\ users' = IF users[session[s].user].role # "AUTHOR"
                     THEN set_role_author(users, session[s].user)
                     ELSE users
         /\ regLast' = RegCall("author_dashboard", s, NoPhone, "ok")
    /\ UNCHANGED <<previews, reqVars, modVars, botVars, ledgerVars, now, otpVars, otpStore,
                   session, courseVars, payVars>>

\* roles: accounts are created as STUDENT (registration) or ADMIN
\* (createsuperuser), log in by phone and open the role-switching views
NextRole ==
    \/ RegisterEmail
    \/ CreateSuperuser
    \/ Logout
    \/ LoginPhone
    \/ LoginVerify
    \/ SwitchToInstructor
    \/ SelectRole
    \/ AuthorDashboard

\* contact_handler: the shared phone reduced to its digits, the user lookup,
\* the link of the Telegram account, and the answer with the pending code
ContactShare ==
    /\ \E chat \in Chats, shared \in SharedPhones :
         LET phone_variant == digits_only(shared)
             user == get_user_by_phone(users, phone_variant)
             linked == set_telegram_id_if_null(telegram, user, chat)
             login == get_otp(otpStore, phone_variant, "login")
             register == get_otp(otpStore, phone_variant, "register")
         IN  /\ IF user # 0
                THEN IF ~linked.ok
                     THEN /\ telegram' = telegram
                          /\ botReply' = BotMessage("error", NoCode)
                     ELSE /\ telegram' = linked.pairs
                          /\ botReply' = IF login # NoCode
                                         THEN BotMessage("login_code", login)
                                         ELSE BotMessage("linked", NoCode)
                ELSE /\ telegram' = telegram
                     /\ botReply' = IF register # NoCode
                                    THEN BotMessage("register_code", register)
                                    ELSE BotMessage("no_pending", NoCode)
             /\ regLast' = RegCall("contact", chat, shared, botReply'.kind)
    /\ UNCHANGED <<previews, reqVars, modVars, ledgerVars, now, otpVars, users, otpStore, session,
                   login_phone, courseVars, payVars>>

\* accounts, and contact handlers of the two chats running concurrently
NextLink ==
    \/ RegisterEmail
    \/ Logout
    \/ HandlerFound
    \/ HandlerLink
    \/ ContactShare

\* registration by phone on the website, phone login, and the bot
NextBot ==
    \/ RegisterPhoneValidate
    \/ RegisterPhoneSend
    \/ RegisterVerifyCheck
    \/ RegisterVerifyCreate
    \/ LoginPhone
    \/ ContactShare

InitBot ==
    /\ login_phone = [s \in Sessions |-> NoPhone]
    /\ telegram = {}
    /\ botReply = BotMessage("none", NoCode)
    /\ linking = [found |-> [c \in Chats |-> NoHandler], last |-> NoLink]

-----------------------------------------------------------------------------
InitOtp ==
    /\ now = 0
    /\ \E code \in Codes : otp = NewVerification(code, 0)
    /\ otpLast = [op |-> "create", code |-> "", ret |-> FALSE, pre |-> otp, at |-> 0]
    /\ otpTrue = 0

Init ==
    /\ InitOtp
    /\ InitReg
    /\ InitCourse
    /\ InitPayout
    /\ InitLedger
    /\ InitModeration
    /\ InitBot

SpecOtp == Init /\ [][NextOtp]_vars
SpecPayout == Init /\ [][NextPayout]_vars
SpecReg == Init /\ [][NextReg]_vars
SpecEnroll == Init /\ [][NextEnroll]_vars
SpecBuilder == Init /\ [][NextBuilder]_vars
SpecProgress == Init /\ [][NextProgress]_vars
SpecTxn == Init /\ [][NextTxn]_vars
SpecRefund == Init /\ [][NextRefund]_vars
SpecRefundLedger == Init /\ [][NextRefundLedger]_vars
SpecLifecycle == Init /\ [][NextLifecycle]_vars
SpecModeration == Init /\ [][NextModeration]_vars
SpecBot == Init /\ [][NextBot]_vars
SpecSoftDelete == Init /\ [][NextSoftDelete]_vars
SpecEnrollRace == Init /\ [][NextEnrollRace]_vars
SpecLogin == Init /\ [][NextLogin]_vars
SpecLink == Init /\ [][NextLink]_vars
SpecLearn == Init /\ [][NextLearn]_vars
SpecRole == Init /\ [][NextRole]_vars
SpecRecount == Init /\ [][NextRecount]_vars

-----------------------------------------------------------------------------
(* Claims about the OTP record *)

\* the row as it was when the last call began
Pre == otpLast.pre
Unexpired(r, t) == t < r.expires_at

\* C3: a record whose attempts counter equals 3 is reported invalid: is_valid()
\* is False, and verify(code) returns False and does not set is_verified,
\* whatever the code and even if the record is unexpired.
C3_AtLimitInvalid ==
    /\ (otp.attempts = MAX_ATTEMPTS => ~is_valid(otp, now))
    /\ (otpLast.op = "is_valid" /\ Pre.attempts = MAX_ATTEMPTS => ~otpLast.ret)
    /\ (otpLast.op = "verify" /\ Pre.attempts = MAX_ATTEMPTS
          => ~otpLast.ret /\ otp.is_verified = Pre.is_verified)

\* the correct code was submitted to an unexpired, unverified row at the limit
C3_Witness ==
    /\ otpLast.op = "verify"
    /\ Pre.attempts = MAX_ATTEMPTS
    /\ otpLast.code = Pre.otp_code
    /\ Unexpired(Pre, otpLast.at)
    /\ ~Pre.is_verified /\ ~Pre.is_deleted
    /\ ~otpLast.ret

\* C4: at most 3 attempts are allowed: on an unexpired, unverified, non-deleted
\* record each of the first three verify() calls returns True when given the
\* correct code, and every later call returns False.
C4_ThreeAttempts ==
    otpLast.op = "verify" =>
        /\ (/\ Pre.attempts < MAX_ATTEMPTS
            /\ otpLast.code = Pre.otp_code
            /\ Unexpired(Pre, otpLast.at) /\ ~Pre.is_verified /\ ~Pre.is_deleted
            => otpLast.ret)
        /\ (Pre.attempts >= MAX_ATTEMPTS => ~otpLast.ret)

\* C8 as claimed: an informational is_valid() check raises attempts by one.
C8_IsValidConsumesAttempt ==
    otpLast.op = "is_valid" => otp.attempts = Pre.attempts + 1

\* C8 amended: is_valid() compares no code and consumes no attempt: it leaves
\* attempts, and the whole record, as they were; only verify() counts.
C8_IsValidReadOnly ==
    otpLast.op = "is_valid" => otp = Pre

\* is_valid() was called on a record that had attempts left
C8_Witness ==
    /\ otpLast.op = "is_valid"
    /\ otpLast.ret
    /\ Pre.attempts > 0
    /\ otp.attempts = Pre.attempts

\* C9: every verify() call increments attempts by exactly 1, and does so before
\* the validity test (the test sees the new count), whether it returns True or
\* False and also on an expired, verified or exhausted record.
C9_VerifyAlwaysCounts ==
    otpLast.op = "verify" =>
        /\ otp.attempts = Pre.attempts + 1
        /\ (otpLast.ret => Pre.attempts + 1 < MAX_ATTEMPTS)
        /\ otpLast.ret =
             (is_valid([Pre EXCEPT !.attempts = @ + 1], otpLast.at)
                /\ otpLast.code = Pre.otp_code)

\* verify() was called on an expired record that was already at the limit
C9_Witness ==
    /\ otpLast.op = "verify"
    /\ ~Unexpired(Pre, otpLast.at)
    /\ Pre.attempts >= MAX_ATTEMPTS
    /\ otp.attempts = Pre.attempts + 1

\* C10: verify() never returns True and never sets is_verified on a record that
\* is expired (now >= expires_at), soft-deleted or already verified, whatever
\* the code; hence at most one verify() call per record returns True.
C10_UsableOnlyWhileFresh ==
    /\ (otpLast.op = "verify"
          /\ (~Unexpired(Pre, otpLast.at) \/ Pre.is_deleted \/ Pre.is_verified)
          => ~otpLast.ret /\ otp.is_verified = Pre.is_verified)
    /\ otpTrue <= 1

\* the correct code was submitted a second time, after it had been accepted
C10_Witness ==
    /\ otpLast.op = "verify"
    /\ Pre.is_verified
    /\ otpLast.code = Pre.otp_code
    /\ Unexpired(Pre, otpLast.at) /\ ~Pre.is_deleted
    /\ Pre.attempts + 1 < MAX_ATTEMPTS
    /\ otpTrue = 1

-----------------------------------------------------------------------------
(* Claims about payouts *)

\* C5: approve_payouts moves every selected PENDING payout to PROCESSING and
\* sets its processed_by to the admin who ran the action; selected payouts in
\* any other status, and payouts not selected, keep status and processed_by.
C5_ApproveOnlyPending ==
    [][payLast'.op = "approve_payouts" =>
         /\ DOMAIN payouts' = DOMAIN payouts
         /\ \A p \in DOMAIN payouts :
              IF p \in payLast'.sel /\ payouts[p].status = "PENDING"
              THEN payouts'[p] = [status |-> "PROCESSING",
                                  processed_by |-> payLast'.admin]
              ELSE payouts'[p] = payouts[p]]_vars

\* one approval covered a pending payout, now stamped, and a failed one, kept
C5_Witness ==
    /\ payLast.op = "approve_payouts"
    /\ \E p, q \in payLast.sel :
         /\ payouts[p].status = "PROCESSING"
         /\ payouts[p].processed_by = payLast.admin
         /\ payouts[q].status = "FAILED"
         /\ payouts[q].processed_by # payLast.admin

-----------------------------------------------------------------------------
(* Claims about registration *)

NoDuplicatePhones ==
    \A i, j \in DOMAIN users :
        users[i].phone_number = users[j].phone_number => i = j

\* C7: registering with a phone number already held by a user fails at form
\* validation (no OTP is sent, no user is created), and under any interleaving
\* of registration requests no two User rows share a phone_number.
C7_DuplicatePhoneRejected ==
    /\ []NoDuplicatePhones
    /\ [][(/\ regLast'.op = "register_phone"
           /\ regLast'.outcome \in {"form_valid", "form_error"}
           /\ phone_exists(users, regLast'.phone))
          => /\ regLast'.outcome = "form_error"
             /\ users' = users
             /\ otpStore' = otpStore
             /\ session' = session]_vars

\* a well-formed phone number was refused because a user created by an
\* interleaved registration holds it, and a second insert of it had failed
C7_Witness ==
    /\ regLast.op = "register_phone"
    /\ regLast.outcome = "form_error"
    /\ phone_regex(regLast.phone)
    /\ phone_exists(users, regLast.phone)
    /\ \E s \in Sessions : session[s].user = 0
                            /\ session[s].registration_phone = regLast.phone

-----------------------------------------------------------------------------
(* Claims about the course *)

\* the student of the session that made the last request
LastStudent == session[courseLast.sess].demo_student_id

UniqueEnrollment ==
    \A a, b \in DOMAIN enrollments :
        enrollments[a].student = enrollments[b].student => a = b

\* C1: enrolling is idempotent: after one or more enroll_course_view calls
\* there is exactly one enrollment row for the student; a repeated call
\* creates no row and leaves enrollment_count unchanged; the counter rises,
\* by exactly 1, only on the call that creates the row.
C1_EnrollIdempotent ==
    /\ []UniqueEnrollment
    /\ [][(courseLast'.op = "enroll" /\ courseLast'.outcome # "error") =>
            LET student == session'[courseLast'.sess].demo_student_id
            IN  /\ Cardinality(enrollment_of(enrollments', student)) = 1
                /\ IF enrollment_of(enrollments, student) # {}
                   THEN /\ courseLast'.outcome = "exists"
                        /\ enrollments' = enrollments
                        /\ course' = course
                   ELSE /\ courseLast'.outcome = "created"
                        /\ Len(enrollments') = Len(enrollments) + 1
                        /\ course'.enrollment_count = course.enrollment_count + 1]_vars
    /\ [][course'.enrollment_count # course.enrollment_count =>
            courseLast'.op = "enroll" /\ courseLast'.outcome = "created"]_vars

\* two students are enrolled and one of them has just enrolled again
C1_Witness ==
    /\ courseLast.op = "enroll"
    /\ courseLast.outcome = "exists"
    /\ Len(enrollments) = 2
    /\ course.enrollment_count = 2
    /\ Cardinality(enrollment_of(enrollments, LastStudent)) = 1

\* every lesson now in the course has a completed progress row of enrollment e
AllLessonsCompleted(e) ==
    /\ course_lessons # {}
    /\ \A l \in course_lessons :
         [enrollment |-> e, lesson |-> l, completed |-> TRUE] \in progress

\* C2: once mark_lesson_complete has succeeded for every lesson currently in
\* the course, progress_percentage is exactly 100 (10000 hundredths), whatever
\* lessons or modules were added or soft-deleted before the last completion.
C2_AllCompleteIs100 ==
    (courseLast.op = "mark_complete" /\ courseLast.outcome = "ok") =>
        \A e \in enrollment_of(enrollments, LastStudent) :
            AllLessonsCompleted(e) => enrollments[e].progress_percentage = 10000

\* C6: publish_course_view sets the status to PENDING only if the course has
\* a non-deleted module and one of its non-deleted modules has a non-deleted
\* lesson; otherwise the request is answered with an error and the course is
\* left as it was.
C6_PublishNeedsContent ==
    [][courseLast'.op = "publish_course" =>
         IF \E m \in DOMAIN modules :
                /\ ~modules[m].is_deleted
                /\ \E l \in DOMAIN lessons :
                       ~lessons[l].is_deleted /\ lessons[l].module = m
         THEN course'.status = "PENDING" /\ courseLast'.outcome = "submitted"
         ELSE course' = course /\ courseLast'.outcome = "error"]_vars

\* a DRAFT course was refused although it has a module row with a lesson:
\* that module is soft-deleted, and the remaining module has no lesson
C6_Witness ==
    /\ courseLast.op = "publish_course"
    /\ courseLast.outcome = "error"
    /\ course.status = "DRAFT"
    /\ \E m \in DOMAIN modules :
         modules[m].is_deleted /\ \E l \in live(lessons) : lessons[l].module = m
    /\ \E m \in live(modules) : module_lessons(m) = {}

-----------------------------------------------------------------------------
(* Claims about refund requests and transactions *)

-----------------------------------------------------------------------------
(* Claims about the course lifecycle *)

\* C15: publish_course_view changes the status only of a DRAFT or REJECTED
\* course (to PENDING); submitting a PUBLISHED or ARCHIVED course leaves its
\* status as it was.
C15_SubmitOnlyFromDraftOrRejected ==
    [][courseLast'.op = "publish_course" =>
         /\ course'.status # course.status =>
                course.status \in {"DRAFT", "REJECTED"} /\ course'.status = "PENDING"
         /\ course.status \in {"PUBLISHED", "ARCHIVED"} =>
                course'.status = course.status]_vars

\* C16 (as stated): publish_courses moves a PENDING course to PUBLISHED and
\* sets published_at, and leaves a course in any other status as it was; and
\* whenever a course becomes PUBLISHED it is by this action, from PENDING.
C16_PublishedOnlyByPublishAction ==
    [][/\ courseLast'.op = "publish_courses" =>
            IF course.status = "PENDING"
            THEN course' = [course EXCEPT !.status = "PUBLISHED",
                                          !.published_at = now']
            ELSE course' = course
       /\ (course'.status = "PUBLISHED" /\ course.status # "PUBLISHED") =>
            /\ courseLast'.op = "publish_courses"
            /\ course.status = "PENDING"
            /\ course'.published_at = now']_vars

\* C16 (amended): publish_courses moves a PENDING course to PUBLISHED and sets
\* published_at, and leaves a course in any other status as it was; a course
\* becomes PUBLISHED either by this action, from PENDING, or by the status
\* field of the admin change form, from any status and with published_at kept.
C16_PublishActionOrChangeForm ==
    [][/\ courseLast'.op = "publish_courses" =>
            IF course.status = "PENDING"
            THEN course' = [course EXCEPT !.status = "PUBLISHED",
                                          !.published_at = now']
            ELSE course' = course
       /\ (course'.status = "PUBLISHED" /\ course.status # "PUBLISHED") =>
            \/ /\ courseLast'.op = "publish_courses"
               /\ course.status = "PENDING"
               /\ course'.published_at = now'
            \/ /\ courseLast'.op = "change_form"
               /\ course'.published_at = course.published_at]_vars

\* the publish action ran on a REJECTED course that had been published before,
\* and left its status and its published_at
C16_Witness ==
    /\ courseLast.op = "publish_courses"
    /\ courseLast.outcome = "none"
    /\ course.status = "REJECTED"
    /\ course.published_at # None

\* C17 (as stated): archive_courses sets the status to ARCHIVED whatever it
\* was, and no other operation ever makes a course ARCHIVED.
C17_ArchivedOnlyByArchiveAction ==
    [][/\ courseLast'.op = "archive_courses" =>
            course' = [course EXCEPT !.status = "ARCHIVED"]
       /\ (course'.status = "ARCHIVED" /\ course.status # "ARCHIVED") =>
            courseLast'.op = "archive_courses"]_vars

\* C17 (amended): archive_courses sets the status to ARCHIVED whatever it was;
\* a course becomes ARCHIVED only in the admin site, by this action or by the
\* status field of the change form, and never by an author-facing or
\* student-facing operation (building, edit, submit, enroll, progress).
C17_ArchivedOnlyByAdmin ==
    [][/\ courseLast'.op = "archive_courses" =>
            course' = [course EXCEPT !.status = "ARCHIVED"]
       /\ (course'.status = "ARCHIVED" /\ course.status # "ARCHIVED") =>
            courseLast'.op \in {"archive_courses", "change_form"}
       /\ courseLast'.op \in {"add_module", "add_lesson", "edit_course",
                              "publish_course", "enroll", "mark_complete"} =>
            (course'.status = "ARCHIVED" => course.status = "ARCHIVED")]_vars

\* the archive action archived a course that had been published and has an
\* enrolled student
C17_Witness ==
    /\ courseLast.op = "archive_courses"
    /\ course.status = "ARCHIVED"
    /\ course.published_at # None
    /\ course.enrollment_count > 0

-----------------------------------------------------------------------------
(* Claims about moderation *)

\* C18: a moderation record is APPROVED only when its course is PUBLISHED and
\* REJECTED only when its course is REJECTED; in particular no moderation
\* record is APPROVED while the course is PENDING or DRAFT.
C18_ModerationMirrorsCourse ==
    \A r \in DOMAIN moderation :
        /\ moderation[r].status = "APPROVED" => course.status = "PUBLISHED"
        /\ moderation[r].status = "REJECTED" => course.status = "REJECTED"

-----------------------------------------------------------------------------
(* Claims about the bot *)

\* C20: on a contact share, when the shared number is the phone of a user
\* (stored with its plus sign) and a login code is pending for it, the bot
\* answers with that login code; and it answers with a registration code only
\* when no user has that phone.
C20_BotRelaysLoginCode ==
    [][regLast'.op = "contact" =>
         LET key == digits_only(regLast'.phone)
             owners == {u \in DOMAIN users :
                           digits_only(users[u].phone_number) = key}
             login == get_otp(otpStore, key, "login")
         IN  /\ (owners # {} /\ login # NoCode) =>
                    botReply' = BotMessage("login_code", login)
             /\ botReply'.kind = "register_code" => owners = {}]_vars

-----------------------------------------------------------------------------
(* Claims about soft delete *)

\* C19: delete() keeps the row, sets is_deleted and stamps deleted_at with the
\* current time, after which the default manager no longer returns the row
\* and all_objects still does; restore() clears both fields, after which the
\* default manager returns the row again, so that restore() after delete()
\* gives back the row as it was; and in every state is_deleted holds exactly
\* when deleted_at is non-null.  (A step with the clock unchanged is a call;
\* the call is the one courseLast names.)
C19_SoftDeleteConsistent ==
    /\ [](\A m \in all_objects(modules) :
            /\ modules[m].is_deleted <=> modules[m].deleted_at # None
            /\ m \in live(modules) =>
                 restore(soft_delete(modules[m], now)) = modules[m])
    /\ [][/\ (courseLast'.op = "delete" /\ now' = now) =>
               \E m \in all_objects(modules) :
                  /\ modules' = [modules EXCEPT ![m].is_deleted = TRUE,
                                                ![m].deleted_at = now']
                  /\ now' # None
                  /\ m \notin live(modules')
                  /\ m \in all_objects(modules')
          /\ (courseLast'.op = "restore" /\ now' = now) =>
               \E m \in all_objects(modules) :
                  /\ modules' = [modules EXCEPT ![m].is_deleted = FALSE,
                                                ![m].deleted_at = None]
                  /\ m \in live(modules')
                  /\ m \in all_objects(modules')]_vars

\* after delete and restore calls at different minutes, one module is
\* restored and visible again and another is deleted, hidden and stamped
C19_Witness ==
    /\ courseLast.op = "restore"
    /\ \E m, k \in all_objects(modules) :
         /\ m \in live(modules)
         /\ modules[m].deleted_at = None
         /\ k \notin live(modules)
         /\ modules[k].deleted_at # None
         /\ modules[k].deleted_at < now

-----------------------------------------------------------------------------
(* Audit log *)

\* the ActionType an admin action would be logged under
LoggedAs(op) ==
    CASE op = "approve_courses" -> "COURSE_APPROVED"
      [] op = "reject_courses" -> "COURSE_REJECTED"
      [] op = "approve_payouts" -> "PAYOUT_APPROVED"
      [] op = "reject_payouts" -> "PAYOUT_REJECTED"
      [] op = "approve_refunds" -> "REFUND_APPROVED"
      [] op = "reject_refunds" -> "REFUND_REJECTED"
      [] OTHER -> "OTHER"

\* the step appends one ModerationLog row naming the admin and the type of op
Logged(admin, op) ==
    /\ Len(moderation_logs') = Len(moderation_logs) + 1
    /\ SubSeq(moderation_logs', 1, Len(moderation_logs)) = moderation_logs
    /\ moderation_logs'[Len(moderation_logs')] = NewModerationLog(admin, LoggedAs(op))

\* C21: every admin moderation action (course moderation approve, reject,
\* request changes; payout approve, reject; refund approve, reject) appends a
\* ModerationLog row that names the acting admin and the action type.
C21_AdminActionsAreLogged ==
    [][/\ (/\ modLast' # modLast
           /\ modLast'.op \in {"approve_courses", "reject_courses", "request_changes"})
          => Logged(modLast'.admin, modLast'.op)
       /\ (/\ payLast' # payLast
           /\ payLast'.op \in {"approve_payouts", "reject_payouts"})
          => Logged(payLast'.admin, payLast'.op)
       /\ (/\ refLast' # refLast
           /\ refLast'.op \in {"approve_refunds", "reject_refunds"})
          => Logged(refLast'.admin, refLast'.op)]_vars

-----------------------------------------------------------------------------
(* The percentage after mark_lesson_complete *)

\* the step is a mark_lesson_complete that answered success
MarkedComplete == courseLast'.op = "mark_complete" /\ courseLast'.outcome = "ok"

\* the enrollment the request of the step worked on
MarkedEnrollment ==
    CHOOSE e \in enrollment_of(enrollments, session[courseLast'.sess].demo_student_id) : TRUE

\* h hundredths of a percent is 100 * completed / total to the two decimal
\* places the field stores, or 0 when total is 0
IsPercentage(h, completed, total) ==
    IF total = 0 THEN h = 0
    ELSE /\ 2 * (h * total - 10000 * completed) <= total
         /\ 2 * (10000 * completed - h * total) <= total

\* the percentage stored by the step is the ratio of the enrollment's completed
\* rows to the course's lessons, both counted after the step
PercentageRecounted ==
    LET e == MarkedEnrollment
    IN  IsPercentage(enrollments'[e].progress_percentage,
                     Cardinality({r \in progress' : r.enrollment = e /\ r.completed}),
                     Cardinality({l \in DOMAIN lessons' : ~lessons'[l].is_deleted}))

-----------------------------------------------------------------------------
(* The enrollment counter under concurrent requests *)

\* C23: as long as no enroll_course_view request has started while another one
\* was in flight (a purely sequential execution), enrollment_count equals the
\* number of enrollment rows; in every execution the counter is at most the
\* number of rows and an enrollment row is never removed. The interleaving that
\* loses an increment is the state C23_Witness.
C23_SequentialCountsRows ==
    /\ [](/\ ~enrolling.overlapped => course.enrollment_count = Len(enrollments)
          /\ course.enrollment_count <= Len(enrollments))
    /\ [][/\ Len(enrollments') >= Len(enrollments)
          /\ ~enrolling'.overlapped =>
               course'.enrollment_count - course.enrollment_count
                 = Len(enrollments') - Len(enrollments)]_vars

\* two requests by distinct students overlapped, both created their row, and
\* the counter has lost one increment
C23_Witness ==
    /\ enrolling.overlapped
    /\ \A s \in Sessions : enrolling.loaded[s] = None
    /\ Len(enrollments) = 2
    /\ enrollments[1].student # enrollments[2].student
    /\ course.enrollment_count = 1

-----------------------------------------------------------------------------
(* Phone registration, step 2 *)

\* C24: register_verify_otp_view creates a user only in a session that holds a
\* registration_phone and whose code has just verified, with purpose
\* 'register', for that phone, the stored registration data being returned; the
\* user created is a STUDENT with phone_verified = True, is logged in, and the
\* session's registration_phone and the OTP are cleared; a failed verification
\* creates no user and logs nobody in.
C24_CreatedOnlyAfterVerifiedOtp ==
    /\ [](\A s \in Sessions :
            session[s].pc = "create" =>
               /\ session[s].registration_phone # NoPhone
               /\ session[s].form_phone = session[s].registration_phone
               /\ session[s].user = 0)
    /\ [][\A s \in Sessions :
            (session'[s].pc = "create" /\ session[s].pc # "create") =>
               LET key == strip_plus(session[s].registration_phone)
               IN  /\ session[s].registration_phone # NoPhone
                   /\ \E e \in otpStore.otp : e.key = key /\ e.purpose = "register"
                   /\ \E e \in otpStore.temp :
                        e.key = key /\ e.data = session'[s].form_phone
                   /\ regLast' = RegCall("register_verify", s,
                                         session[s].registration_phone, "otp_ok")]_vars
    /\ [][regLast'.op = "register_verify" =>
            LET s == regLast'.sess
            IN  IF regLast'.outcome = "created"
                THEN /\ session[s].pc = "create"
                     /\ users' = Append(users,
                                   [phone_number |-> session[s].registration_phone,
                                    role |-> "STUDENT", phone_verified |-> TRUE])
                     /\ session'[s].registration_phone = NoPhone
                     /\ session'[s].user = Len(users')
                     /\ ~\E e \in otpStore'.otp :
                            /\ e.key = strip_plus(session[s].registration_phone)
                            /\ e.purpose = "register"
                     /\ \A o \in Sessions \ {s} : session'[o] = session[o]
                ELSE /\ users' = users
                     /\ otpStore' = otpStore
                     /\ \A o \in Sessions : session'[o].user = session[o].user]_vars

\* a visitor has just been registered by phone and is logged in, while the
\* other session still waits with its registration_phone after a wrong code
C24_Witness ==
    /\ regLast.op = "register_verify"
    /\ regLast.outcome = "created"
    /\ session[regLast.sess].user = Len(users)
    /\ users[Len(users)].phone_verified
    /\ \E o \in Sessions \ {regLast.sess} :
         /\ session[o].registration_phone # NoPhone
         /\ session[o].user = 0

-----------------------------------------------------------------------------
(* Phone login *)

\* C25: login_phone is set, and a login code is sent, only by a
\* login_phone_view request of that session that found the account of the
\* phone and passed its password check; login_verify_otp_view logs a session
\* in only as the user of the session's login_phone and only with a code that
\* verifies for that phone with purpose 'login'; after a failed code the
\* session is still anonymous and still holds its login_phone.
C25_LoginNeedsPasswordThenCode ==
    /\ [](\A s \in Sessions :
            login_phone[s] # NoPhone => phone_exists(users, login_phone[s]))
    /\ [][/\ \A s \in Sessions :
               (login_phone'[s] # login_phone[s] /\ login_phone'[s] # NoPhone) =>
                   /\ regLast' = RegCall("login_phone", s, login_phone'[s], "otp_sent")
                   /\ phone_exists(users, login_phone'[s])
          /\ \A e \in otpStore'.otp \ otpStore.otp :
               e.purpose = "login" =>
                   /\ regLast'.op = "login_phone"
                   /\ regLast'.outcome = "otp_sent"
                   /\ e.key = strip_plus(regLast'.phone)
                   /\ login_phone'[regLast'.sess] = regLast'.phone
          /\ regLast'.op = "login_verify" =>
               LET s == regLast'.sess
                   P == login_phone[s]
               IN  /\ P # NoPhone
                   /\ regLast'.phone = P
                   /\ session[s].user = 0
                   /\ \A o \in Sessions \ {s} :
                        session'[o] = session[o] /\ login_phone'[o] = login_phone[o]
                   /\ IF regLast'.outcome = "logged_in"
                      THEN /\ [key |-> strip_plus(P), purpose |-> "login",
                               code |-> regLast'.code] \in otpStore.otp
                           /\ session'[s].user # 0
                           /\ users[session'[s].user].phone_number = P
                           /\ login_phone'[s] = NoPhone
                      ELSE /\ session'[s] = session[s]
                           /\ login_phone'[s] = P
                           /\ otpStore' = otpStore
          /\ \A s \in Sessions :
               (session[s].user = 0 /\ session'[s].user # 0) =>
                   regLast'.op \in {"login_verify", "register_email"}]_vars

\* one session has just logged in by phone with its code, the other has
\* passed the password check for the other account and still waits
C25_Witness ==
    /\ regLast.op = "login_verify"
    /\ regLast.outcome = "logged_in"
    /\ session[regLast.sess].user # 0
    /\ users[session[regLast.sess].user].phone_number = regLast.phone
    /\ \E o \in Sessions \ {regLast.sess} :
         /\ session[o].user = 0
         /\ login_phone[o] \notin {NoPhone, regLast.phone}

-----------------------------------------------------------------------------
(* Module order *)

\* C26: after any sequence of add_module_view and delete_module_view calls no
\* two module rows of the course, soft-deleted rows included, have the same
\* order, every add_module_view with a valid form succeeds, and the new module
\* gets the highest order among the course's modules plus one, starting at 1.
C26_AddModuleSucceedsWithNextOrder ==
    /\ [](\A m, n \in all_objects(modules) :
            modules[m].order = modules[n].order => m = n)
    /\ [][courseLast'.op = "add_module" =>
            /\ courseLast'.outcome = "ok"
            /\ Len(modules') = Len(modules) + 1
            /\ modules'[Len(modules')].order =
                 max_order(modules, live(modules)) + 1]_vars

-----------------------------------------------------------------------------
(* The link of a Telegram account *)

\* C27: a user's telegram_id is written only while it is null, by a call of
\* set_telegram_id_if_null that returns True, and a call that does not write
\* returns False; once set it is never changed or cleared by a later contact
\* share, also when two handlers that both read the user unlinked run
\* concurrently for the same user from different chats.
C27_LinkedAtMostOnce ==
    /\ [](\A t, u \in telegram : (t.user = u.user \/ t.chat = u.chat) => t = u)
    /\ [][/\ \A t \in telegram : t \in telegram'
          /\ \A t \in telegram' \ telegram :
               /\ telegram_id_of(telegram, t.user) = ""
               /\ telegram' = telegram \cup {t}
               /\ linking'.last = [chat |-> t.chat, user |-> t.user, updated |-> TRUE]
               /\ linking.found[t.chat].user = t.user
          /\ (linking'.found # linking.found /\ telegram' = telegram) =>
               \/ linking'.last = linking.last
               \/ ~linking'.last.updated]_vars

\* two handlers found the same unlinked user from different chats; the first
\* has linked its chat, the second has called the function and got False
C27_Witness ==
    /\ linking.last.user # 0
    /\ ~linking.last.updated
    /\ \E t \in telegram : t.user = linking.last.user /\ t.chat # linking.last.chat
    /\ \A c \in Chats : linking.found[c] = NoHandler

-----------------------------------------------------------------------------
(* Access to lessons *)

\* C28: course_learn_view answers can_access = True if and only if the
\* session's student has an enrollment in the course or the current lesson is
\* marked is_preview, so a student without enrollment never gets access to a
\* lesson that is not a preview; the view creates no enrollment.
C28_AccessIffEnrolledOrPreview ==
    [][courseLast'.op = "learn" =>
         LET student == session'[courseLast'.sess].demo_student_id
             enrolled == \E e \in DOMAIN enrollments' :
                            enrollments'[e].student = student
             lesson == courseLast'.lesson
         IN  /\ enrollments' = enrollments
             /\ course' = course
             /\ courseLast'.outcome = "ok" =>
                  /\ student # 0
                  /\ lesson # NoLesson => ~lessons'[lesson].is_deleted
                  /\ courseLast'.can_access <=>
                        (enrolled \/ (lesson # NoLesson /\ lesson \in previews'))
             /\ courseLast'.outcome # "ok" => ~courseLast'.can_access]_vars

\* a visitor who is not enrolled has been refused a lesson that is not a
\* preview, while another lesson of the course is one
C28_Witness ==
    /\ courseLast.op = "learn"
    /\ courseLast.outcome = "ok"
    /\ ~courseLast.can_access
    /\ courseLast.lesson # NoLesson
    /\ courseLast.lesson \notin previews
    /\ previews \cap live(lessons) # {}
    /\ enrollments = <<>>

-----------------------------------------------------------------------------
(* Roles *)

\* C29: a user's stored role changes only from STUDENT to AUTHOR, only by
\* switch_to_instructor_view on POST, select_role_view('author') or
\* author_dashboard_view; the role of an ADMIN is left unchanged, no view sets
\* ADMIN and no view turns an AUTHOR back into a STUDENT.
C29_OnlyStudentBecomesAuthor ==
    [][\A u \in DOMAIN users :
         /\ users[u].role = "ADMIN" => users'[u].role = "ADMIN"
         /\ users'[u].role # users[u].role =>
              /\ users[u].role = "STUDENT"
              /\ users'[u].role = "AUTHOR"
              /\ session[regLast'.sess].user = u
              /\ \/ regLast'.op = "switch_to_instructor" /\ regLast'.outcome = "POST"
                 \/ regLast'.op = "select_role" /\ regLast'.outcome = "author"
                 \/ regLast'.op = "author_dashboard"]_vars

-----------------------------------------------------------------------------
(* The form of stored phone numbers *)

\* C30: in every reachable state every User.phone_number is '+998' followed
\* by exactly nine decimal digits, the placeholder numbers of email
\* registration and the number of the demo student included.
C30_EveryPhoneMatchesRegex ==
    \A u \in DOMAIN users : phone_regex(users[u].phone_number)

====
